---- MODULE Spec2Model ----
(***************************************************************************)
(* State-machine model of the GanesaEseva2 backend: the Access Guard       *)
(* (middleware/auth.js), the form taxonomy routers (form-categories and    *)
(* form-subcategories), the forms router, the customers router and the     *)
(* message-templates router, over a document store with the schemas'       *)
(* setters, validators and unique indexes.                                 *)
(*                                                                         *)
(* Strings that the schemas trim are sequences of one-character strings,   *)
(* so that trimming is computed.  Request bodies are records whose domain  *)
(* is the set of keys present in the JSON body.  Document ids are the      *)
(* strings "c1", "s1", "d1", ... standing for well-formed ObjectIds.       *)
(* Date.now() is the logical clock now, which every stamped write advances. *)
(***************************************************************************)
EXTENDS Integers, Sequences, FiniteSets, TLC

VARIABLES categories, subcategories, forms, customers, templates, nextCat, nextSub, nextDoc, now, resp, procs

vars == <<categories, subcategories, forms, customers, templates, nextCat, nextSub, nextDoc, now, resp, procs>>

(***************************************************************************)
(* Bounds of the model.  Document ids are never reused, so each bound is   *)
(* the number of documents of that kind created in one run.                *)
(***************************************************************************)
MaxCats == 2

MaxSubs == 2

\* fields per field list of a request
MaxFields == 2

\* requests handled concurrently
MaxProcs == 2

\* forms, customers and message templates created in one run
MaxDocs == 2

\* readings of the clock that differ in one run
MaxClock == 3

(***************************************************************************)
(* Strings and String.prototype.trim                                       *)
(***************************************************************************)
SP == " "

RECURSIVE TrimLeft(_)
TrimLeft(s) ==
  IF s # <<>> /\ Head(s) = SP THEN TrimLeft(Tail(s)) ELSE s

RECURSIVE TrimRight(_)
TrimRight(s) ==
  IF s # <<>> /\ s[Len(s)] = SP THEN TrimRight(SubSeq(s, 1, Len(s) - 1)) ELSE s

\* a `trim: true` schema setter, and String.prototype.trim
Trim(s) == TrimRight(TrimLeft(s))

Has(obj, key) == key \in DOMAIN obj

\* JavaScript truthiness of an optional property holding a string (a sequence of
\* characters here) or an array: absent and '' are falsy, [] is truthy
TruthyStr(obj, key) == Has(obj, key) /\ obj[key] # <<>>

\* the same for a property holding an enumeration word or an id
TruthyWord(obj, key) == Has(obj, key) /\ obj[key] # ""

\* express-validator's check(key).not().isEmpty()
NotEmptyStr(body, key) == Has(body, key) /\ body[key] # <<>>

NotEmptyWord(body, key) == Has(body, key) /\ body[key] # ""

\* the ObjectIds of the n-th created category, subcategory and other document
CatId(n) == "c" \o ToString(n)

SubId(n) == "s" \o ToString(n)

DocId(n) == "d" \o ToString(n)


NoUser == "none"

(***************************************************************************)
(* Access Guard: middleware/auth.js                                        *)
(***************************************************************************)
\* jwt.verify: the payload of a token with a good signature; no other token verifies
JwtPayload ==
  [tokU1 |-> [id |-> "u1", iat |-> 2],
   tokU2 |-> [id |-> "u2", iat |-> 2],
   tokGone |-> [id |-> "u9", iat |-> 2],
   tokOld |-> [id |-> "u3", iat |-> 1]]

\* a header or cookie value is a sequence of symbols: single characters, and
\* signed tokens, each one symbol (a token holds no space)
JwtVerifies(token) == Len(token) = 1 /\ token[1] \in DOMAIN JwtPayload

\* the users collection: it is written by no router of this model
Users ==
  {[id |-> "u1", passwordChangedAt |-> 0],
   [id |-> "u2", passwordChangedAt |-> 0],
   [id |-> "u3", passwordChangedAt |-> 2]}

UserFindById(id) == {u \in Users : u.id = id}

changedPasswordAfter(user, iat) == user.passwordChangedAt > iat

BearerScheme == <<"B", "e", "a", "r", "e", "r">>

\* String.prototype.startsWith
StartsWith(s, prefix) ==
  Len(s) >= Len(prefix) /\ SubSeq(s, 1, Len(prefix)) = prefix

\* String.prototype.split(' '): the pieces between single spaces, empty ones kept
RECURSIVE SplitOnSpace(_)
SplitOnSpace(s) ==
  IF \A i \in 1..Len(s) : s[i] # " " THEN <<s>>
  ELSE LET i == CHOOSE k \in 1..Len(s) : s[k] = " " /\ \A j \in 1..(k - 1) : s[j] # " "
       IN <<SubSeq(s, 1, i - 1)>> \o SplitOnSpace(SubSeq(s, i + 1, Len(s)))

\* a guard that reads the cookie whenever the header gave no token
TokenOfWithCookieFallback(req) ==
  LET parts == SplitOnSpace(req.authorization)
      fromHeader == IF req.authorization # <<>> /\ StartsWith(req.authorization, BearerScheme)
                       /\ Len(parts) >= 2
                    THEN parts[2] ELSE <<>>
  IN IF fromHeader # <<>> THEN fromHeader ELSE req.cookie

\* the token protect reads: from the header when it starts with Bearer (the piece
\* after the first space, undefined or empty read as <<>>), else the cookie
TokenOf(req) ==
  IF req.authorization # <<>> /\ StartsWith(req.authorization, BearerScheme)
  THEN (LET parts == SplitOnSpace(req.authorization)
        IN IF Len(parts) >= 2 THEN parts[2] ELSE <<>>)
  ELSE IF req.cookie # <<>> THEN req.cookie ELSE <<>>

\* protect: either next() with req.user set, or one 401 response
protect(req) ==
  LET token == TokenOf(req) IN
  IF token = <<>> THEN [user |-> NoUser, next |-> FALSE, status |-> 401]
  ELSE IF ~JwtVerifies(token) THEN [user |-> NoUser, next |-> FALSE, status |-> 401]
  ELSE LET decoded == JwtPayload[token[1]]
           found == UserFindById(decoded.id) IN
       IF found = {} THEN [user |-> NoUser, next |-> FALSE, status |-> 401]
       ELSE LET currentUser == CHOOSE u \in found : TRUE IN
            IF changedPasswordAfter(currentUser, decoded.iat)
            THEN [user |-> NoUser, next |-> FALSE, status |-> 401]
            ELSE [user |-> currentUser.id, next |-> TRUE, status |-> 0]

(***************************************************************************)
(* Responses.  msg abstracts the body: one word per distinct body.         *)
(***************************************************************************)
Response(op, req, status, msg) == [req |-> req, status |-> status, op |-> op, msg |-> msg]

\* a handler that answers 400 where it has completed its write
ReplyRejectedAfterWrite(op, req, status, msg) ==
  resp' = Response(op, req, IF status \in {200, 201} THEN 400 ELSE status, msg)

Reply(op, req, status, msg) == resp' = Response(op, req, status, msg)

TaxonomyUnchanged == UNCHANGED <<forms, customers, templates, nextDoc, now, procs>>

(***************************************************************************)
(* Store operations on the FormCategory collection                         *)
(***************************************************************************)
CategoryById(id) == {c \in categories : c._id = id}

\* a lookup that compares the raw request value with the stored (trimmed) names
CategoryByNameUncast(name) == {c \in categories : c.name = name}

\* FormCategory.findOne({ name }): the query value is cast by the schema (trimmed)
CategoryByName(name) == {c \in categories : c.name = Trim(name)}

\* a handler that skips the existence check
CategoryExistsUnchecked(categoryId) == TRUE

\* FormCategory.findById(categoryId) followed by if (!category)
CategoryExists(categoryId) == CategoryById(categoryId) # {}

\* the unique index { name: 1 } rejects a write that leaves two documents with one name
CategoryIndexRejects(doc) == \E c \in categories : c._id # doc._id /\ c.name = doc.name

\* document validation on save: name is required (non-empty once trimmed), createdBy too
CategoryValid(doc) == doc.name # <<>> /\ doc.createdBy # NoUser

\* a form-categories module that also required the FormSubCategory model
CategoriesRouterScopeWithSubCategory ==
  {"express", "router", "check", "validationResult", "auth", "FormCategory", "FormSubCategory"}

\* the names in scope of the form-categories router module
CategoriesRouterScope == {"express", "router", "check", "validationResult", "auth", "FormCategory"}

(***************************************************************************)
(* form-categories router                                                  *)
(***************************************************************************)
\* POST /api/form-categories
createCategory(req) ==
  LET guard == protect(req.auth)
      body == req.body
      op == "createCategory" IN
  /\ TaxonomyUnchanged
  /\ UNCHANGED <<subcategories, nextSub>>
  /\ IF ~guard.next
     THEN Reply(op, req, guard.status, "Unauthorized") /\ UNCHANGED <<categories, nextCat>>
     ELSE IF ~NotEmptyStr(body, "name")
     THEN Reply(op, req, 400, "ValidationFailed") /\ UNCHANGED <<categories, nextCat>>
     ELSE IF CategoryByName(body.name) # {}
     THEN Reply(op, req, 400, "DuplicateName") /\ UNCHANGED <<categories, nextCat>>
     ELSE LET doc == [_id |-> CatId(nextCat),
                      name |-> Trim(body.name),
                      createdBy |-> guard.user,
                      description |-> IF TruthyStr(body, "description")
                                      THEN Trim(body.description) ELSE <<>>,
                      isActive |-> TRUE,
                      updatedBy |-> NoUser,
                      createdAt |-> now,
                      updatedAt |-> now] IN
          IF ~CategoryValid(doc) \/ CategoryIndexRejects(doc)
          THEN Reply(op, req, 500, "ServerError") /\ UNCHANGED <<categories, nextCat>>
          ELSE /\ nextCat <= MaxCats
               /\ categories' = categories \cup {doc}
               /\ nextCat' = nextCat + 1
               /\ Reply(op, req, 200, "Category")

\* the guard had it been left out
NameAlwaysChanged(name, category) == TRUE

\* if (name !== category.name): the requested name as sent against the stored one
NameChanged(name, category) == name # category.name

\* PUT /api/form-categories/:id
updateCategory(req) ==
  LET guard == protect(req.auth)
      body == req.body
      op == "updateCategory" IN
  /\ TaxonomyUnchanged
  /\ UNCHANGED <<subcategories, nextSub, nextCat>>
  /\ IF ~guard.next
     THEN Reply(op, req, guard.status, "Unauthorized") /\ UNCHANGED categories
     ELSE IF ~NotEmptyStr(body, "name")
     THEN Reply(op, req, 400, "ValidationFailed") /\ UNCHANGED categories
     ELSE IF CategoryById(req.id) = {}
     THEN Reply(op, req, 404, "NotFound") /\ UNCHANGED categories
     ELSE LET category == CHOOSE c \in CategoryById(req.id) : TRUE IN
          IF NameChanged(body.name, category) /\ CategoryByName(body.name) # {}
          THEN Reply(op, req, 400, "DuplicateName") /\ UNCHANGED categories
          ELSE LET updated == [category EXCEPT
                                 !.name = Trim(body.name),
                                 !.updatedBy = guard.user,
                                 !.updatedAt = now,
                                 !.description = IF Has(body, "description")
                                                 THEN Trim(body.description) ELSE @,
                                 !.isActive = IF Has(body, "isActive")
                                              THEN body.isActive ELSE @] IN
               IF CategoryIndexRejects(updated)
               THEN Reply(op, req, 500, "ServerError") /\ UNCHANGED categories
               ELSE /\ categories' = (categories \ {category}) \cup {updated}
                    /\ Reply(op, req, 200, "Category")

\* DELETE /api/form-categories/:id
deleteCategory(req) ==
  LET guard == protect(req.auth)
      op == "deleteCategory" IN
  /\ TaxonomyUnchanged
  /\ UNCHANGED <<subcategories, nextSub, nextCat>>
  /\ IF ~guard.next
     THEN Reply(op, req, guard.status, "Unauthorized") /\ UNCHANGED categories
     ELSE IF CategoryById(req.id) = {}
     THEN Reply(op, req, 404, "NotFound") /\ UNCHANGED categories
     ELSE IF "FormSubCategory" \notin CategoriesRouterScope
     THEN \* the identifier is not bound: ReferenceError, caught, 500
          Reply(op, req, 500, "ServerError") /\ UNCHANGED categories
     ELSE IF \E s \in subcategories : s.categoryId = req.id
     THEN Reply(op, req, 400, "HasDependents") /\ UNCHANGED categories
     ELSE /\ categories' = categories \ CategoryById(req.id)
          /\ Reply(op, req, 200, "Removed")

(***************************************************************************)
(* FormSubCategory schema and collection                                   *)
(***************************************************************************)
FieldTypes == {"text", "number", "date", "select", "checkbox", "radio", "textarea"}

ChoiceTypes == {"select", "radio", "checkbox"}

\* what the schema makes of one element of fields: setters and defaults applied
CastField(field) ==
  [name |-> IF Has(field, "name") THEN Trim(field.name) ELSE <<>>,
   fieldType |-> IF Has(field, "fieldType") THEN field.fieldType ELSE "",
   options |-> IF Has(field, "options")
               THEN [i \in 1..Len(field.options) |-> Trim(field.options[i])] ELSE <<>>,
   required |-> IF Has(field, "required") THEN field.required ELSE FALSE]

CastFields(fields) == [i \in 1..Len(fields) |-> CastField(fields[i])]

\* a schema whose fieldType has no enum
FieldValidNoEnum(f) == f.name # <<>> /\ f.fieldType # ""

\* the validators of one stored field: name required, fieldType required and in the enum
FieldValid(f) == f.name # <<>> /\ f.fieldType \in FieldTypes

\* document validation on save
SubcategoryValid(doc) ==
  /\ doc.name # <<>>
  /\ doc.createdBy # NoUser
  /\ \A i \in 1..Len(doc.fields) : FieldValid(doc.fields[i])

SubcategoryById(id) == {s \in subcategories : s._id = id}

\* the lookup without _id: { $ne: except }
SubcategoryByKeyIncludingSelf(name, categoryId, except) ==
  {s \in subcategories : s.name = Trim(name) /\ s.categoryId = categoryId}

\* a lookup by name alone, in every category
SubcategoryByNameOnly(name, categoryId, except) ==
  {s \in subcategories : s.name = Trim(name) /\ s._id # except}

\* FormSubCategory.findOne({ name, categoryId, _id: { $ne: except } })
SubcategoryByKey(name, categoryId, except) ==
  {s \in subcategories : s.name = Trim(name) /\ s.categoryId = categoryId /\ s._id # except}

\* a collection without the unique compound index
SubcategoryIndexAbsent(doc) == FALSE

\* the unique compound index { name: 1, categoryId: 1 }
SubcategoryIndexRejects(doc) ==
  \E s \in subcategories :
    s._id # doc._id /\ s.name = doc.name /\ s.categoryId = doc.categoryId

\* the body of the handlers' loop over fields: the response it returns for one field
FieldError(field) ==
  IF ~TruthyStr(field, "name") \/ ~TruthyWord(field, "fieldType")
  THEN "FieldNameTypeRequired"
  ELSE IF field.fieldType \in ChoiceTypes
          /\ (~Has(field, "options") \/ Len(field.options) = 0)
  THEN "OptionsRequired"
  ELSE ""

\* for (const field of fields): the first response returned, "" when the loop ends
RECURSIVE ValidateFields(_)
ValidateFields(fields) ==
  IF fields = <<>> THEN ""
  ELSE IF FieldError(Head(fields)) # "" THEN FieldError(Head(fields))
  ELSE ValidateFields(Tail(fields))

\* the express-validator chain of POST and PUT /api/form-subcategories
SubcategoryBodyOk(body) ==
  NotEmptyStr(body, "name") /\ NotEmptyWord(body, "categoryId") /\ Has(body, "fields")

(***************************************************************************)
(* form-subcategories router                                               *)
(***************************************************************************)
\* POST /api/form-subcategories
createSubcategory(req) ==
  LET guard == protect(req.auth)
      body == req.body
      op == "createSubcategory" IN
  /\ TaxonomyUnchanged
  /\ UNCHANGED <<categories, nextCat>>
  /\ IF ~guard.next
     THEN Reply(op, req, guard.status, "Unauthorized") /\ UNCHANGED <<subcategories, nextSub>>
     ELSE IF ~SubcategoryBodyOk(body)
     THEN Reply(op, req, 400, "ValidationFailed") /\ UNCHANGED <<subcategories, nextSub>>
     ELSE IF ~CategoryExists(body.categoryId)
     THEN Reply(op, req, 404, "CategoryNotFound") /\ UNCHANGED <<subcategories, nextSub>>
     ELSE IF SubcategoryByKey(body.name, body.categoryId, "") # {}
     THEN Reply(op, req, 400, "DuplicateName") /\ UNCHANGED <<subcategories, nextSub>>
     ELSE IF ValidateFields(body.fields) # ""
     THEN Reply(op, req, 400, ValidateFields(body.fields))
          /\ UNCHANGED <<subcategories, nextSub>>
     ELSE LET doc == [_id |-> SubId(nextSub),
                      name |-> Trim(body.name),
                      categoryId |-> body.categoryId,
                      createdBy |-> guard.user,
                      description |-> IF TruthyStr(body, "description")
                                      THEN Trim(body.description) ELSE <<>>,
                      isActive |-> TRUE,
                      updatedBy |-> NoUser,
                      fields |-> CastFields(body.fields)] IN
          IF ~SubcategoryValid(doc) \/ SubcategoryIndexRejects(doc)
          THEN Reply(op, req, 500, "ServerError") /\ UNCHANGED <<subcategories, nextSub>>
          ELSE /\ nextSub <= MaxSubs
               /\ subcategories' = subcategories \cup {doc}
               /\ nextSub' = nextSub + 1
               /\ Reply(op, req, 200, "Subcategory")

\* PUT /api/form-subcategories/:id
updateSubcategory(req) ==
  LET guard == protect(req.auth)
      body == req.body
      op == "updateSubcategory" IN
  /\ TaxonomyUnchanged
  /\ UNCHANGED <<categories, nextCat, nextSub>>
  /\ IF ~guard.next
     THEN Reply(op, req, guard.status, "Unauthorized") /\ UNCHANGED subcategories
     ELSE IF ~SubcategoryBodyOk(body)
     THEN Reply(op, req, 400, "ValidationFailed") /\ UNCHANGED subcategories
     ELSE IF SubcategoryById(req.id) = {}
     THEN Reply(op, req, 404, "NotFound") /\ UNCHANGED subcategories
     ELSE IF ~CategoryExists(body.categoryId)
     THEN Reply(op, req, 404, "CategoryNotFound") /\ UNCHANGED subcategories
     ELSE LET subcategory == CHOOSE s \in SubcategoryById(req.id) : TRUE IN
          IF /\ (body.name # subcategory.name \/ body.categoryId # subcategory.categoryId)
             /\ SubcategoryByKey(body.name, body.categoryId, req.id) # {}
          THEN Reply(op, req, 400, "DuplicateName") /\ UNCHANGED subcategories
          ELSE IF ValidateFields(body.fields) # ""
          THEN Reply(op, req, 400, ValidateFields(body.fields)) /\ UNCHANGED subcategories
          ELSE \* findByIdAndUpdate with $set: cast, but no validators run
               LET updated == [subcategory EXCEPT
                                 !.name = Trim(body.name),
                                 !.categoryId = body.categoryId,
                                 !.fields = CastFields(body.fields),
                                 !.updatedBy = guard.user,
                                 !.description = IF Has(body, "description")
                                                 THEN Trim(body.description) ELSE @,
                                 !.isActive = IF Has(body, "isActive")
                                              THEN body.isActive ELSE @] IN
               IF SubcategoryIndexRejects(updated)
               THEN Reply(op, req, 500, "ServerError") /\ UNCHANGED subcategories
               ELSE /\ subcategories' = (subcategories \ {subcategory}) \cup {updated}
                    /\ Reply(op, req, 200, "Subcategory")

\* DELETE /api/form-subcategories/:id
deleteSubcategory(req) ==
  LET guard == protect(req.auth)
      op == "deleteSubcategory" IN
  /\ TaxonomyUnchanged
  /\ UNCHANGED <<categories, nextCat, nextSub>>
  /\ IF ~guard.next
     THEN Reply(op, req, guard.status, "Unauthorized") /\ UNCHANGED subcategories
     ELSE IF SubcategoryById(req.id) = {}
     THEN Reply(op, req, 404, "NotFound") /\ UNCHANGED subcategories
     ELSE /\ subcategories' = subcategories \ SubcategoryById(req.id)
          /\ Reply(op, req, 200, "Removed")

(***************************************************************************)
(* forms router: routes/forms.js, Form model                               *)
(***************************************************************************)
FormsFrame == UNCHANGED <<categories, subcategories, customers, templates, nextCat, nextSub, procs>>

FormsKept == UNCHANGED <<forms, nextDoc, now>>

\* strings that cast to an ObjectId; findById of any other string throws a CastError
ObjectIdStrings == {DocId(n) : n \in 1..(MaxDocs + 1)}

FormById(id) == {f \in forms : f._id = id}

\* the uniqueness query had it named the name only
FormByNameOnly(body, except) ==
  {f \in forms : f._id # except /\ Has(body, "name") /\ f.name = Trim(body.name)}

\* Form.findOne({ _id: { $ne: except }, $or: [{ name }, { url }] }); an undefined value
\* matches no stored form, every stored form having both
FormByNameOrUrl(body, except) ==
  {f \in forms : /\ f._id # except
                  /\ \/ Has(body, "name") /\ f.name = Trim(body.name)
                     \/ Has(body, "url") /\ f.url = Trim(body.url)}

\* validators of formSchema: name and url required
FormValid(doc) == doc.name # <<>> /\ doc.url # <<>>

\* the unique indexes on name and on url
FormIndexRejects(doc) ==
  \E f \in forms : f._id # doc._id /\ (f.name = doc.name \/ f.url = doc.url)

\* POST /api/forms: create, or update when the body carries an id
postForm(req) ==
  LET guard == protect(req.auth)
      body == req.body
      op == "postForm"
      name == IF Has(body, "name") THEN Trim(body.name) ELSE <<>>
      url == IF Has(body, "url") THEN Trim(body.url) ELSE <<>> IN
  /\ FormsFrame
  /\ IF ~guard.next
     THEN Reply(op, req, guard.status, "Unauthorized") /\ FormsKept
     ELSE IF TruthyWord(body, "id")
     THEN IF body.id \notin ObjectIdStrings
          THEN Reply(op, req, 500, "ServerError") /\ FormsKept
          ELSE IF FormById(body.id) = {}
          THEN Reply(op, req, 404, "NotFound") /\ FormsKept
          ELSE IF FormByNameOrUrl(body, body.id) # {}
          THEN Reply(op, req, 400, "DuplicateName") /\ FormsKept
          ELSE LET form == CHOOSE f \in FormById(body.id) : TRUE
                   updated == [form EXCEPT !.name = name, !.url = url, !.updatedAt = now] IN
               IF ~FormValid(updated) \/ FormIndexRejects(updated)
               THEN Reply(op, req, 500, "ServerError") /\ FormsKept
               ELSE /\ now <= MaxClock
                    /\ forms' = (forms \ {form}) \cup {updated}
                    /\ now' = now + 1
                    /\ UNCHANGED nextDoc
                    /\ Reply(op, req, 200, "Form")
     ELSE IF FormByNameOrUrl(body, "") # {}
     THEN Reply(op, req, 400, "DuplicateName") /\ FormsKept
     ELSE LET doc == [_id |-> DocId(nextDoc), name |-> name, createdAt |-> now,
                      updatedAt |-> now, url |-> url] IN
          IF ~FormValid(doc) \/ FormIndexRejects(doc)
          THEN Reply(op, req, 500, "ServerError") /\ FormsKept
          ELSE /\ nextDoc <= MaxDocs /\ now <= MaxClock
               /\ forms' = forms \cup {doc}
               /\ nextDoc' = nextDoc + 1
               /\ now' = now + 1
               /\ Reply(op, req, 200, "Form")

\* DELETE /api/forms/:id
deleteForm(req) ==
  LET guard == protect(req.auth)
      op == "deleteForm" IN
  /\ FormsFrame
  /\ UNCHANGED <<nextDoc, now>>
  /\ IF ~guard.next
     THEN Reply(op, req, guard.status, "Unauthorized") /\ UNCHANGED forms
     ELSE IF req.id \notin ObjectIdStrings
     THEN Reply(op, req, 500, "ServerError") /\ UNCHANGED forms
     ELSE IF FormById(req.id) = {}
     THEN Reply(op, req, 404, "NotFound") /\ UNCHANGED forms
     ELSE /\ forms' = forms \ FormById(req.id)
          /\ Reply(op, req, 200, "Removed")

(***************************************************************************)
(* customers router: unnamed/part_000 lines 1-228.  The Customer model is  *)
(* not among the sources: its validators and unique index follow the       *)
(* specification (name required, a unique contact field).                  *)
(***************************************************************************)
CustomersFrame == UNCHANGED <<categories, subcategories, forms, templates, nextCat, nextSub, procs>>

CustomersKept == UNCHANGED <<customers, nextDoc, now>>

ReplyData(op, req, status, msg, data) ==
  resp' = [req |-> req, status |-> status, op |-> op, msg |-> msg, data |-> data]

\* the exceptions the store throws: a string that does not cast to an ObjectId, and the
\* paths of a document that fail their validators
CastError(value) == [name |-> "CastError", value |-> value]

ValidationError(paths) == [name |-> "ValidationError", paths |-> paths]

\* res.status(500).json({ ..., error: error.message }): a 500 whose body carries the
\* message of the exception caught
ReplyError(op, req, exception) ==
  resp' = [req |-> req, status |-> 500, op |-> op, msg |-> "ServerError", error |-> exception]

\* JSON null as the value of a string property: the one value that is not a sequence
\* of single characters
Null == <<"null">>

\* truthiness of an optional string property that may also be null
TruthyText(obj, key) == Has(obj, key) /\ obj[key] # <<>> /\ obj[key] # Null

Http == <<"h", "t", "t", "p">>

\* String.prototype.startsWith('http')
StartsWithHttp(s) == Len(s) >= Len(Http) /\ SubSeq(s, 1, Len(Http)) = Http

\* `https://${s}`
HttpsPrefixed(s) == <<"h", "t", "t", "p", "s", ":", "/", "/">> \o s

\* obj without the property key
Without(obj, key) == [k \in DOMAIN obj \ {key} |-> obj[k]]

\* obj with the property key set to val
With(obj, key, val) == [k \in DOMAIN obj \cup {key} |-> IF k = key THEN val ELSE obj[k]]

\* POST: the serviceCategoryUrl block of the create handler
NormalizeOnCreate(body) ==
  IF TruthyText(body, "serviceCategoryUrl")
  THEN LET url == Trim(body.serviceCategoryUrl) IN
       IF url = <<>> THEN Without(body, "serviceCategoryUrl")
       ELSE IF ~StartsWithHttp(url) THEN With(body, "serviceCategoryUrl", HttpsPrefixed(url))
       ELSE With(body, "serviceCategoryUrl", url)
  ELSE body

\* the value of a property set to undefined in an update
Undefined == <<"undefined">>

\* PUT: the serviceCategoryUrl block of the update handler
NormalizeOnUpdate(body) ==
  IF Has(body, "serviceCategoryUrl")
  THEN IF TruthyText(body, "serviceCategoryUrl") /\ Trim(body.serviceCategoryUrl) # <<>>
       THEN LET url == Trim(body.serviceCategoryUrl) IN
            IF ~StartsWithHttp(url) THEN With(body, "serviceCategoryUrl", HttpsPrefixed(url))
            ELSE With(body, "serviceCategoryUrl", url)
       ELSE With(body, "serviceCategoryUrl", Undefined)
  ELSE body

CustomerById(id) == {c \in customers : c._id = id}

\* validators of the Customer schema: name required
CustomerValid(doc) == Has(doc, "name") /\ doc.name # Null /\ Trim(doc.name) # <<>>

\* the unique index on the contact field phone
CustomerIndexRejects(doc) ==
  /\ Has(doc, "phone")
  /\ \E c \in customers : c._id # doc._id /\ Has(c, "phone") /\ c.phone = doc.phone

\* what the store does with a property the update document holds as undefined: the
\* driver writes null, or the mapper strips the key, depending on the mapper's version
UndefinedOutcomes == {"null", "stripped"}

\* the document after $set of the update document
ApplyUpdate(doc, update, undef) ==
  LET keys == {k \in DOMAIN update : update[k] # Undefined \/ undef = "null"} IN
  [k \in DOMAIN doc \cup keys |->
     IF k \in keys THEN (IF update[k] = Undefined THEN Null ELSE update[k]) ELSE doc[k]]

\* $options: 'i' over the letters of the model
Lower(ch) == CASE ch = "A" -> "a" [] ch = "B" -> "b" [] OTHER -> ch

LowerAll(s) == [i \in DOMAIN s |-> Lower(s[i])]

\* { $regex: q, $options: 'i' } for a q without metacharacters: q occurs in text
RegexMatches(text, q) ==
  \E i \in 0..(Len(text) - Len(q)) :
     LowerAll(SubSeq(text, i + 1, i + Len(q))) = LowerAll(q)

\* the paths of searchQuery.$or
SearchPaths == {<<"name">>, <<"phone">>, <<"email">>, <<"address", "line1">>,
                <<"address", "city">>, <<"address", "state">>}

\* the string at a path of a document, '' when the document has none
TextAt(doc, path) ==
  IF ~Has(doc, path[1]) THEN <<>>
  ELSE IF Len(path) = 1 THEN (IF doc[path[1]] = Null THEN <<>> ELSE doc[path[1]])
  ELSE IF Has(doc[path[1]], path[2]) THEN doc[path[1]][path[2]] ELSE <<>>

SearchHit(c, q) == \E path \in SearchPaths : RegexMatches(TextAt(c, path), q)

\* .limit(10)
SearchLimit == 10

\* .select('name phone email address'), the _id being selected by default
Projected(c) == [k \in DOMAIN c \cap {"_id", "name", "phone", "email", "address"} |-> c[k]]

\* Customer.find().sort({ createdAt: -1 })
SortedByCreatedAtDesc(docs) ==
  CHOOSE s \in [1..Cardinality(docs) -> docs] :
     \A i, j \in DOMAIN s : i < j => s[i].createdAt > s[j].createdAt

\* GET /
listCustomers(req) ==
  /\ CustomersKept
  /\ ReplyData("listCustomers", req, 200, "Customers", SortedByCreatedAtDesc(customers))

\* GET /:id
getCustomer(req, id) ==
  LET op == "getCustomer" IN
  /\ CustomersKept
  /\ IF id \notin ObjectIdStrings
     THEN Reply(op, req, 500, "ServerError")
     ELSE IF CustomerById(id) = {}
     THEN Reply(op, req, 404, "NotFound")
     ELSE ReplyData(op, req, 200, "Customer", CHOOSE c \in CustomerById(id) : TRUE)

\* GET /search
searchCustomers(req) ==
  LET op == "searchCustomers"
      hits == {c \in customers : Has(req.query, "q") /\ SearchHit(c, req.query.q)} IN
  /\ CustomersKept
  /\ IF ~TruthyStr(req.query, "q")
     THEN Reply(op, req, 400, "QueryRequired")
     ELSE \E page \in SUBSET hits :
            /\ Cardinality(page) = IF Cardinality(hits) < SearchLimit
                                    THEN Cardinality(hits) ELSE SearchLimit
            /\ ReplyData(op, req, 200, "Customers", {Projected(c) : c \in page})

\* POST /
createCustomer(req) ==
  LET op == "createCustomer"
      customerData == NormalizeOnCreate(req.body)
      doc == With(With(customerData, "_id", DocId(nextDoc)), "createdAt", now) IN
  IF ~CustomerValid(doc)
  THEN Reply(op, req, 400, "ValidationFailed") /\ CustomersKept
  ELSE IF CustomerIndexRejects(doc)
  THEN Reply(op, req, 400, "DuplicateKey") /\ CustomersKept
  ELSE /\ nextDoc <= MaxDocs /\ now <= MaxClock
       /\ customers' = customers \cup {doc}
       /\ nextDoc' = nextDoc + 1
       /\ now' = now + 1
       /\ Reply(op, req, 201, "Customer")

\* PUT /:id
updateCustomer(req, id) ==
  LET op == "updateCustomer"
      updateData == NormalizeOnUpdate(req.body) IN
  /\ UNCHANGED <<nextDoc, now>>
  /\ IF id \notin ObjectIdStrings
     THEN ReplyError(op, req, CastError(id)) /\ UNCHANGED customers
     ELSE IF Has(updateData, "name") /\ ~CustomerValid(updateData)
     THEN Reply(op, req, 400, "ValidationFailed") /\ UNCHANGED customers
     ELSE IF CustomerById(id) = {}
     THEN Reply(op, req, 404, "NotFound") /\ UNCHANGED customers
     ELSE \E undef \in UndefinedOutcomes :
            LET customer == CHOOSE c \in CustomerById(id) : TRUE
                updated == ApplyUpdate(customer, updateData, undef) IN
            IF CustomerIndexRejects(updated)
            THEN Reply(op, req, 400, "DuplicateKey") /\ UNCHANGED customers
            ELSE /\ customers' = (customers \ {customer}) \cup {updated}
                 /\ Reply(op, req, 200, "Customer")

\* DELETE /:id
deleteCustomer(req, id) ==
  LET op == "deleteCustomer" IN
  /\ UNCHANGED <<nextDoc, now>>
  /\ IF id \notin ObjectIdStrings
     THEN Reply(op, req, 500, "ServerError") /\ UNCHANGED customers
     ELSE IF CustomerById(id) = {}
     THEN Reply(op, req, 404, "NotFound") /\ UNCHANGED customers
     ELSE /\ customers' = customers \ CustomerById(id)
          /\ Reply(op, req, 200, "Deleted")

\* the routes of the customers router in the order of their registration; a path is
\* the sequence of its segments
CustomersRoutes ==
  << [path |-> <<>>, method |-> "GET", handler |-> "listCustomers"],
     [path |-> <<":id">>, method |-> "GET", handler |-> "getCustomer"],
     [path |-> <<"search">>, method |-> "GET", handler |-> "searchCustomers"],
     [path |-> <<>>, method |-> "POST", handler |-> "createCustomer"],
     [path |-> <<":id">>, method |-> "PUT", handler |-> "updateCustomer"],
     [path |-> <<":id">>, method |-> "DELETE", handler |-> "deleteCustomer"] >>

\* a route parameter matches any one segment
IsParam(segment) == segment = ":id"

RouteMatches(route, method, path) ==
  /\ route.method = method
  /\ Len(route.path) = Len(path)
  /\ \A i \in DOMAIN path : IsParam(route.path[i]) \/ route.path[i] = path[i]

\* express.Router: the first registered route that matches handles the request
Dispatch(routes, method, path) ==
  LET hits == {i \in DOMAIN routes : RouteMatches(routes[i], method, path)} IN
  IF hits = {} THEN "none"
  ELSE routes[CHOOSE i \in hits : \A j \in hits : i <= j].handler

\* a request to the customers router; no route of it is behind protect
customersRouter(req) ==
  LET handler == Dispatch(CustomersRoutes, req.method, req.path)
      id == IF req.path = <<>> THEN "" ELSE req.path[1] IN
  /\ CustomersFrame
  /\ CASE handler = "listCustomers" -> listCustomers(req)
       [] handler = "getCustomer" -> getCustomer(req, id)
       [] handler = "searchCustomers" -> searchCustomers(req)
       [] handler = "createCustomer" -> createCustomer(req)
       [] handler = "updateCustomer" -> updateCustomer(req, id)
       [] handler = "deleteCustomer" -> deleteCustomer(req, id)
       [] OTHER -> Reply("none", req, 404, "NoRoute") /\ CustomersKept

(***************************************************************************)
(* message-templates router: unnamed/part_000 lines 230-345, and the       *)
(* MessageTemplate model.  No route of this router is behind protect.      *)
(***************************************************************************)
TemplatesFrame == UNCHANGED <<categories, subcategories, forms, customers, nextCat, nextSub, procs>>

TemplatesKept == UNCHANGED <<templates, nextDoc, now>>

TemplateTypes == {"ALERT", "NOTIFICATION", "PROMOTIONAL"}

TemplateById(id) == {t \in templates : t._id = id}

\* the validators of messageTemplateSchema on the paths a write sets, after the trim setters
TemplateValid(doc) ==
  /\ \A key \in {"name", "subject", "content"} \cap DOMAIN doc : Trim(doc[key]) # <<>>
  /\ Has(doc, "type") => doc.type \in TemplateTypes

\* the paths of doc that fail them
TemplateInvalidPaths(doc) ==
  {key \in {"name", "subject", "content"} \cap DOMAIN doc : Trim(doc[key]) = <<>>}
    \cup {key \in {"type"} \cap DOMAIN doc : doc.type \notin TemplateTypes}

\* the schema's setters: trim on name, subject and content
CastTemplate(doc) ==
  [k \in DOMAIN doc |-> IF k \in {"name", "subject", "content"} THEN Trim(doc[k]) ELSE doc[k]]

\* POST /
createTemplate(req) ==
  LET op == "createTemplate"
      body == req.body
      type == IF Has(body, "type") THEN body.type ELSE "ALERT" IN
  /\ TemplatesFrame
  /\ IF ~TruthyStr(body, "name") \/ ~TruthyStr(body, "subject") \/ ~TruthyStr(body, "content")
     THEN Reply(op, req, 400, "MissingFields") /\ TemplatesKept
     ELSE LET doc == [_id |-> DocId(nextDoc), name |-> Trim(body.name),
                      createdAt |-> now, updatedAt |-> now,
                      type |-> type, subject |-> Trim(body.subject), content |-> Trim(body.content)] IN
          IF ~TemplateValid(doc)
          THEN ReplyError(op, req, ValidationError(TemplateInvalidPaths(doc))) /\ TemplatesKept
          ELSE /\ nextDoc <= MaxDocs /\ now <= MaxClock
               /\ templates' = templates \cup {doc}
               /\ nextDoc' = nextDoc + 1
               /\ now' = now + 1
               /\ Reply(op, req, 201, "Template")

\* the update document built by the update handler: the truthy properties of the body
TemplateUpdateData(body) ==
  [k \in {key \in {"name", "subject", "content"} : TruthyStr(body, key)}
          \cup {key \in {"type"} : TruthyWord(body, key)} |-> body[k]]

\* PUT /:id; findByIdAndUpdate runs no save middleware, so updatedAt stays
updateTemplate(req) ==
  LET op == "updateTemplate"
      updateData == CastTemplate(TemplateUpdateData(req.body)) IN
  /\ TemplatesFrame
  /\ UNCHANGED <<nextDoc, now>>
  /\ IF req.id \notin ObjectIdStrings
     THEN ReplyError(op, req, CastError(req.id)) /\ UNCHANGED templates
     ELSE IF ~TemplateValid(updateData)
     THEN ReplyError(op, req, ValidationError(TemplateInvalidPaths(updateData)))
          /\ UNCHANGED templates
     ELSE IF TemplateById(req.id) = {}
     THEN Reply(op, req, 404, "NotFound") /\ UNCHANGED templates
     ELSE LET template == CHOOSE t \in TemplateById(req.id) : TRUE
              updated == [k \in DOMAIN template |->
                            IF Has(updateData, k) THEN updateData[k] ELSE template[k]] IN
          /\ templates' = (templates \ {template}) \cup {updated}
          /\ Reply(op, req, 200, "Template")

\* DELETE /:id
deleteTemplate(req) ==
  LET op == "deleteTemplate" IN
  /\ TemplatesFrame
  /\ UNCHANGED <<nextDoc, now>>
  /\ IF req.id \notin ObjectIdStrings
     THEN ReplyError(op, req, CastError(req.id)) /\ UNCHANGED templates
     ELSE IF TemplateById(req.id) = {}
     THEN Reply(op, req, 404, "NotFound") /\ UNCHANGED templates
     ELSE /\ templates' = templates \ TemplateById(req.id)
          /\ Reply(op, req, 200, "Deleted")

\* POST /:id/test: an echo of the template's subject and content
testTemplate(req) ==
  LET op == "testTemplate" IN
  /\ TemplatesFrame
  /\ TemplatesKept
  /\ IF req.id \notin ObjectIdStrings
     THEN ReplyError(op, req, CastError(req.id))
     ELSE IF TemplateById(req.id) = {}
     THEN Reply(op, req, 404, "NotFound")
     ELSE LET template == CHOOSE t \in TemplateById(req.id) : TRUE IN
          ReplyData(op, req, 200, "TestSent",
                    [subject |-> template.subject, content |-> template.content])

(***************************************************************************)
(* Initial state: the stores are empty and no request has been answered.   *)
(***************************************************************************)
NoRequest == [body |-> [none |-> TRUE], id |-> "", auth |-> [authorization |-> <<>>, cookie |-> <<>>]]

Procs == 1..MaxProcs

\* a request handler between two awaits: where it stands, its request, req.user, whether
\* it went on to save() after its uniqueness query found nothing, the status it answered
NoDoc == [none |-> TRUE]

\* doc is the document a handler holds from an earlier findById
IdleProc ==
  [user |-> NoUser, req |-> NoRequest, status |-> 0, doc |-> NoDoc, pc |-> "idle", passed |-> FALSE]

Init ==
  /\ categories = {}
  /\ subcategories = {}
  /\ forms = {}
  /\ customers = {}
  /\ templates = {}
  /\ nextCat = 1
  /\ nextSub = 1
  /\ nextDoc = 1
  /\ now = 1
  /\ resp = Response("none", NoRequest, 0, "")
  /\ procs = [p \in Procs |-> IdleProc]

(***************************************************************************)
(* Requests                                                                *)
(***************************************************************************)
Bearer(token) == [authorization |-> BearerScheme \o <<" ", token>>, cookie |-> <<>>]

NoCredential == [authorization |-> <<>>, cookie |-> <<>>]

CatIds == {CatId(n) : n \in 1..MaxCats}

SubIds == {SubId(n) : n \in 1..MaxSubs}

NameA == <<"A">>

NameB == <<"B">>

NamePaddedA == <<" ", "A">>

SeqAuths == {Bearer("tokU1")}

SeqNames == {NameA, NameB, NamePaddedA}

SeqSubNames == {NameA, NameB}

SeqFieldLists == {<<>>}

(***************************************************************************)
(* Spec: the taxonomy routers, requests handled one at a time              *)
(***************************************************************************)
CreateCategory ==
  \E a \in SeqAuths, n \in SeqNames :
    createCategory([body |-> [name |-> n], id |-> "", auth |-> a])

UpdateCategory ==
  \E a \in SeqAuths, id \in CatIds, n \in SeqNames :
    updateCategory([body |-> [name |-> n], id |-> id, auth |-> a])

DeleteCategory ==
  \E a \in SeqAuths, id \in CatIds :
    deleteCategory([body |-> [none |-> TRUE], id |-> id, auth |-> a])

CreateSubcategory ==
  \E a \in SeqAuths, n \in SeqSubNames, c \in CatIds, fl \in SeqFieldLists :
    createSubcategory([body |-> [name |-> n, categoryId |-> c, fields |-> fl], id |-> "",
                       auth |-> a])

UpdateSubcategory ==
  \E a \in SeqAuths, id \in SubIds, n \in SeqSubNames, c \in CatIds, fl \in SeqFieldLists :
    updateSubcategory([body |-> [name |-> n, categoryId |-> c, fields |-> fl], id |-> id,
                       auth |-> a])

DeleteSubcategory ==
  \E a \in SeqAuths, id \in SubIds :
    deleteSubcategory([body |-> [none |-> TRUE], id |-> id, auth |-> a])

Next ==
  \/ CreateCategory
  \/ UpdateCategory
  \/ DeleteCategory
  \/ CreateSubcategory
  \/ UpdateSubcategory
  \/ DeleteSubcategory

Spec == Init /\ [][Next]_vars

(***************************************************************************)
(* SpecRace: createSubcategory handlers running concurrently.  A handler    *)
(* runs to its next await in one step; the store answers one operation at   *)
(* a time (per-document atomicity, no transaction across the three).        *)
(***************************************************************************)
RaceUnchanged == UNCHANGED <<forms, customers, templates, nextDoc, now, categories, nextCat>>

Finish(p, status, msg) ==
  /\ procs' = [procs EXCEPT ![p].pc = "done", ![p].status = status]
  /\ Reply("createSubcategory", procs[p].req, status, msg)

\* the handler up to await FormCategory.findById: protect and the validation chain
subcategoryStart(p, req) ==
  LET guard == protect(req.auth) IN
  /\ procs[p].pc = "idle"
  /\ RaceUnchanged
  /\ UNCHANGED <<subcategories, nextSub>>
  /\ IF ~guard.next
     THEN /\ procs' = [procs EXCEPT ![p] = [IdleProc EXCEPT !.pc = "done", !.req = req,
                                                             !.status = guard.status]]
          /\ Reply("createSubcategory", req, guard.status, "Unauthorized")
     ELSE IF ~SubcategoryBodyOk(req.body)
     THEN /\ procs' = [procs EXCEPT ![p] = [IdleProc EXCEPT !.pc = "done", !.req = req,
                                                             !.status = 400]]
          /\ Reply("createSubcategory", req, 400, "ValidationFailed")
     ELSE /\ procs' = [procs EXCEPT ![p] = [IdleProc EXCEPT !.pc = "findCategory",
                                                             !.req = req, !.user = guard.user]]
          /\ UNCHANGED resp

\* await FormCategory.findById(categoryId) resolves
subcategoryFindCategory(p) ==
  /\ procs[p].pc = "findCategory"
  /\ RaceUnchanged
  /\ UNCHANGED <<subcategories, nextSub>>
  /\ IF ~CategoryExists(procs[p].req.body.categoryId)
     THEN Finish(p, 404, "CategoryNotFound")
     ELSE procs' = [procs EXCEPT ![p].pc = "findDuplicate"] /\ UNCHANGED resp

\* await FormSubCategory.findOne({ name, categoryId }) resolves; the loop over fields
subcategoryFindDuplicate(p) ==
  LET body == procs[p].req.body IN
  /\ procs[p].pc = "findDuplicate"
  /\ RaceUnchanged
  /\ UNCHANGED <<subcategories, nextSub>>
  /\ IF SubcategoryByKey(body.name, body.categoryId, "") # {}
     THEN Finish(p, 400, "DuplicateName")
     ELSE IF ValidateFields(body.fields) # ""
     THEN Finish(p, 400, ValidateFields(body.fields))
     ELSE procs' = [procs EXCEPT ![p].pc = "save", ![p].passed = TRUE] /\ UNCHANGED resp

\* await subcategory.save() resolves or rejects; the populate query and the response
subcategorySave(p) ==
  LET body == procs[p].req.body
      doc == [_id |-> SubId(nextSub),
              name |-> Trim(body.name),
              categoryId |-> body.categoryId,
              createdBy |-> procs[p].user,
              description |-> IF TruthyStr(body, "description")
                              THEN Trim(body.description) ELSE <<>>,
              isActive |-> TRUE,
              updatedBy |-> NoUser,
              fields |-> CastFields(body.fields)] IN
  /\ procs[p].pc = "save"
  /\ RaceUnchanged
  /\ IF ~SubcategoryValid(doc) \/ SubcategoryIndexRejects(doc)
     THEN Finish(p, 500, "ServerError") /\ UNCHANGED <<subcategories, nextSub>>
     ELSE /\ nextSub <= MaxSubs
          /\ subcategories' = subcategories \cup {doc}
          /\ nextSub' = nextSub + 1
          /\ Finish(p, 200, "Subcategory")

RaceNames == {NameA, NamePaddedA}

RaceCreateCategory ==
  \E n \in {NameA, NameB} :
    /\ createCategory([body |-> [name |-> n], id |-> "", auth |-> Bearer("tokU1")])
    /\ procs' = procs

RaceStart ==
  \E p \in Procs, n \in RaceNames, c \in CatIds :
    subcategoryStart(p, [body |-> [name |-> n, categoryId |-> c, fields |-> <<>>], id |-> "",
                         auth |-> Bearer("tokU1")])

RaceFindCategory == \E p \in Procs : subcategoryFindCategory(p)

RaceFindDuplicate == \E p \in Procs : subcategoryFindDuplicate(p)

RaceSave == \E p \in Procs : subcategorySave(p)

NextRace ==
  \/ RaceCreateCategory
  \/ RaceStart
  \/ RaceFindCategory
  \/ RaceFindDuplicate
  \/ RaceSave

SpecRace == Init /\ [][NextRace]_vars

(***************************************************************************)
(* SpecFields: subcategory creation and full update over field lists, one   *)
(* request at a time, in one category and under one subcategory name.       *)
(* SpecCreateFields is the same without the update.                         *)
(***************************************************************************)
FText == [name |-> <<"a">>, fieldType |-> "text"]

FSelect == [name |-> <<"b">>, fieldType |-> "select", options |-> << <<"x">> >>]

FRadioEmpty == [name |-> <<"a">>, fieldType |-> "radio", options |-> <<>>]

FCheckboxNoOptions == [name |-> <<"a">>, fieldType |-> "checkbox"]

FNoName == [fieldType |-> "text"]

FBlankName == [name |-> <<" ">>, fieldType |-> "text"]

FNoType == [name |-> <<"a">>]

FBadType == [name |-> <<"a">>, fieldType |-> "color"]

FieldInputs ==
  {FText, FSelect, FRadioEmpty, FCheckboxNoOptions, FNoName, FBlankName, FNoType, FBadType}

\* every field list of at most MaxFields fields
FieldLists == UNION {[1..n -> FieldInputs] : n \in 0..MaxFields}

FieldsCreateCategory ==
  createCategory([body |-> [name |-> NameA], id |-> "", auth |-> Bearer("tokU1")])

FieldsCreateSubcategory ==
  \E fl \in FieldLists :
    createSubcategory([body |-> [name |-> NamePaddedA, categoryId |-> CatId(1),
                                 fields |-> fl], id |-> "",
                       auth |-> Bearer("tokU1")])

FieldsUpdateSubcategory ==
  \E fl \in FieldLists :
    updateSubcategory([body |-> [name |-> NamePaddedA, categoryId |-> CatId(1),
                                 fields |-> fl], id |-> SubId(1),
                       auth |-> Bearer("tokU1")])

NextCreateFields ==
  \/ FieldsCreateCategory
  \/ FieldsCreateSubcategory

SpecCreateFields == Init /\ [][NextCreateFields]_vars

NextFields ==
  \/ FieldsCreateCategory
  \/ FieldsCreateSubcategory
  \/ FieldsUpdateSubcategory

SpecFields == Init /\ [][NextFields]_vars

(***************************************************************************)
(* Properties of the taxonomy under Spec                                   *)
(***************************************************************************)
\* a step in which the handler named op answered a request
Handled(op) == resp'.op = op /\ vars' # vars

CategoriesNamed(name) == {c \in categories : c.name = name}

CategoryNamesUnique ==
  \A c1, c2 \in categories : (c1.name = c2.name \/ c1._id = c2._id) => c1 = c2

\* createCategory with a non-empty name: DuplicateName and no write when the trimmed
\* name is stored already, otherwise success and exactly one more category
CreateCategoryStep ==
  (Handled("createCategory") /\ protect(resp'.req.auth).next
   /\ NotEmptyStr(resp'.req.body, "name") /\ Trim(resp'.req.body.name) # <<>>)
  => LET name == Trim(resp'.req.body.name) IN
     IF CategoriesNamed(name) # {}
     THEN resp'.status = 400 /\ resp'.msg = "DuplicateName" /\ categories' = categories
     ELSE /\ resp'.status = 200
          /\ categories \subseteq categories'
          /\ Cardinality(categories') = Cardinality(categories) + 1
          /\ \E c \in categories' \ categories : c.name = name

\* C1: after any sequence of category requests no two stored categories have the same
\* (trimmed) name; of two creations with one name the first succeeds, the second is
\* answered 400 DuplicateName, and one category is stored.
C1_CategoryNamesUnique == []CategoryNamesUnique /\ [][CreateCategoryStep]_vars

\* a second creation of a stored name was answered DuplicateName; one category holds it
C1_Witness ==
  /\ resp.op = "createCategory"
  /\ resp.status = 400
  /\ resp.msg = "DuplicateName"
  /\ Cardinality(CategoriesNamed(Trim(resp.req.body.name))) = 1

SubcategoriesKeyed(name, categoryId) ==
  {s \in subcategories : s.name = name /\ s.categoryId = categoryId}

SubcategoryKeysUnique ==
  \A s1, s2 \in subcategories :
    ((s1.name = s2.name /\ s1.categoryId = s2.categoryId) \/ s1._id = s2._id) => s1 = s2

\* createSubcategory with a non-empty name, an existing category and an accepted field
\* list: DuplicateName and no write when that category holds the name, success otherwise,
\* whatever the other categories hold
CreateSubcategoryStep ==
  (Handled("createSubcategory") /\ protect(resp'.req.auth).next
   /\ SubcategoryBodyOk(resp'.req.body) /\ Trim(resp'.req.body.name) # <<>>
   /\ CategoryById(resp'.req.body.categoryId) # {}
   /\ resp'.req.body.fields = <<>>)
  => LET name == Trim(resp'.req.body.name)
         categoryId == resp'.req.body.categoryId IN
     IF SubcategoriesKeyed(name, categoryId) # {}
     THEN /\ resp'.status = 400 /\ resp'.msg = "DuplicateName"
          /\ subcategories' = subcategories
     ELSE /\ resp'.status = 200
          /\ subcategories \subseteq subcategories'
          /\ Cardinality(subcategories') = Cardinality(subcategories) + 1
          /\ \E s \in subcategories' \ subcategories :
               s.name = name /\ s.categoryId = categoryId

\* C2: after any sequence of subcategory requests no two stored subcategories share a
\* (name, categoryId) pair; one name is accepted in two different categories, and a
\* second creation of it in the same category is answered 400 DuplicateName, no write.
C2_SubcategoryKeysUnique == []SubcategoryKeysUnique /\ [][CreateSubcategoryStep]_vars

\* one name stored in two categories, and a further creation of it answered DuplicateName
C2_Witness ==
  /\ resp.op = "createSubcategory"
  /\ resp.status = 400
  /\ resp.msg = "DuplicateName"
  /\ \E s1, s2 \in subcategories :
       /\ s1.name = Trim(resp.req.body.name)
       /\ s2.name = s1.name
       /\ s1.categoryId = resp.req.body.categoryId
       /\ s2.categoryId # s1.categoryId

\* deleteCategory on a stored category: HasDependents and no write while a subcategory
\* references it, removal once none does
DeleteCategoryStep ==
  (Handled("deleteCategory") /\ protect(resp'.req.auth).next
   /\ CategoryById(resp'.req.id) # {})
  => IF \E s \in subcategories : s.categoryId = resp'.req.id
     THEN /\ resp'.status = 400 /\ resp'.msg = "HasDependents"
          /\ categories' = categories
     ELSE /\ resp'.status = 200
          /\ categories' = categories \ CategoryById(resp'.req.id)

\* C4: deleteCategory on an existing category fails HasDependents (400), leaving it
\* stored, while a subcategory references it, and removes it once none does.
C4_DeleteCategory == [][DeleteCategoryStep]_vars

ReferentialIntegrity ==
  \A s \in subcategories : CategoryById(s.categoryId) # {}

\* createSubcategory, and updateSubcategory of a stored subcategory, with a categoryId
\* that does not resolve: 404 CategoryNotFound and no write; deleteCategory removes no
\* category that a subcategory references
CategoryReferenceStep ==
  /\ (Handled("createSubcategory") /\ protect(resp'.req.auth).next
      /\ SubcategoryBodyOk(resp'.req.body)
      /\ CategoryById(resp'.req.body.categoryId) = {})
     => (resp'.status = 404 /\ resp'.msg = "CategoryNotFound"
         /\ subcategories' = subcategories)
  /\ (Handled("updateSubcategory") /\ protect(resp'.req.auth).next
      /\ SubcategoryBodyOk(resp'.req.body)
      /\ SubcategoryById(resp'.req.id) # {}
      /\ CategoryById(resp'.req.body.categoryId) = {})
     => (resp'.status = 404 /\ resp'.msg = "CategoryNotFound"
         /\ subcategories' = subcategories)
  /\ Handled("deleteCategory")
     => \A c \in categories \ categories' :
          ~ \E s \in subcategories : s.categoryId = c._id

SameKey(p, q) ==
  /\ Trim(procs[p].req.body.name) = Trim(procs[q].req.body.name)
  /\ procs[p].req.body.categoryId = procs[q].req.body.categoryId

\* two handlers have answered, both having called save() after a uniqueness query that
\* found nothing for the same (name, categoryId): each query ran before the other's write
RacedPair(p, q) ==
  /\ p # q
  /\ procs[p].pc = "done" /\ procs[q].pc = "done"
  /\ procs[p].passed /\ procs[q].passed
  /\ SameKey(p, q)

\* C3 as stated: whenever two createSubcategory requests with one (name, categoryId)
\* both pass the uniqueness check before either writes, the store ends up holding a
\* duplicate (name, categoryId) pair.
C3_RaceAdmitsDuplicate ==
  \A p, q \in Procs :
    RacedPair(p, q)
    => Cardinality(SubcategoriesKeyed(Trim(procs[p].req.body.name),
                                      procs[p].req.body.categoryId)) >= 2

\* C3 as amended: the existence check, the uniqueness check and the write are separate
\* steps and two requests can both pass the uniqueness check, but the unique index on
\* (name, categoryId) rejects every later write: of two such requests at most one is
\* answered 200, the other 500, and the store never holds a duplicate pair.
C3_RaceRejectedByIndex ==
  /\ SubcategoryKeysUnique
  /\ \A p, q \in Procs :
       RacedPair(p, q)
       => /\ {procs[p].status, procs[q].status} \in {{200, 500}, {500}}
          /\ Cardinality(SubcategoriesKeyed(Trim(procs[p].req.body.name),
                                             procs[p].req.body.categoryId)) <= 1

\* two requests with one key both passed the uniqueness check and both have answered
C3_Witness == \E p, q \in Procs : RacedPair(p, q)

(***************************************************************************)
(* Properties of field validation under SpecCreateFields and SpecFields    *)
(***************************************************************************)
\* the three rules of the Field Schema Validator for one field definition
FieldDefinitionOk(field) ==
  /\ Has(field, "name") /\ Trim(field.name) # <<>>
  /\ Has(field, "fieldType") /\ field.fieldType \in FieldTypes
  /\ field.fieldType \in {"select", "radio", "checkbox"}
     => (Has(field, "options") /\ Len(field.options) > 0)

FieldListOk(fields) == \A i \in 1..Len(fields) : FieldDefinitionOk(fields[i])

\* a createSubcategory request that reaches the loop over fields
CreateReachesFields ==
  /\ Handled("createSubcategory")
  /\ protect(resp'.req.auth).next
  /\ SubcategoryBodyOk(resp'.req.body)
  /\ Trim(resp'.req.body.name) # <<>>
  /\ CategoryById(resp'.req.body.categoryId) # {}
  /\ SubcategoriesKeyed(Trim(resp'.req.body.name), resp'.req.body.categoryId) = {}

\* an updateSubcategory request that reaches the loop over fields
UpdateReachesFields ==
  /\ Handled("updateSubcategory")
  /\ protect(resp'.req.auth).next
  /\ SubcategoryBodyOk(resp'.req.body)
  /\ SubcategoryById(resp'.req.id) # {}
  /\ CategoryById(resp'.req.body.categoryId) # {}
  /\ \A s \in SubcategoriesKeyed(Trim(resp'.req.body.name), resp'.req.body.categoryId) :
       s._id = resp'.req.id

CreateStoresIffFieldsOk ==
  CreateReachesFields
  => IF FieldListOk(resp'.req.body.fields)
     THEN /\ resp'.status = 200
          /\ \E s \in subcategories' \ subcategories :
               /\ subcategories' = subcategories \cup {s}
               /\ s.fields = CastFields(resp'.req.body.fields)
     ELSE /\ resp'.status # 200
          /\ subcategories' = subcategories

\* C6: for every field list passed to createSubcategory with an existing category and an
\* unused name, the subcategory is stored iff every field has a name that is non-empty
\* once trimmed, one of the seven field types and, for select, radio and checkbox, a
\* non-empty options list.
C6_CreateStoresIffFieldsOk == [][CreateStoresIffFieldsOk]_vars

\* a two-field list was stored, and so was accepted
C6_Witness ==
  /\ resp.op = "createSubcategory"
  /\ resp.status = 200
  /\ Len(resp.req.body.fields) = 2
  /\ \E s \in subcategories : s.fields = CastFields(resp.req.body.fields)

\* a field whose fieldType is present but not enumerated, or whose name is only whitespace
FieldRejectedBySchemaOnly(field) ==
  \/ Has(field, "fieldType") /\ field.fieldType # "" /\ field.fieldType \notin FieldTypes
  \/ Has(field, "name") /\ field.name # <<>> /\ Trim(field.name) = <<>>

HasFieldRejectedBySchemaOnly(fields) ==
  \E i \in 1..Len(fields) : FieldRejectedBySchemaOnly(fields[i])

FieldViolationAnswered400 ==
  ((CreateReachesFields \/ UpdateReachesFields)
   /\ HasFieldRejectedBySchemaOnly(resp'.req.body.fields))
  => /\ resp'.status = 400
     /\ subcategories' = subcategories

\* C7: a field list with a field whose fieldType is not one of the seven values, or whose
\* name is whitespace-only, makes createSubcategory and updateSubcategory answer 400,
\* never 500 and never 200.
C7_FieldViolationAnswered400 == [][FieldViolationAnswered400]_vars

UpdateStoresIffFieldsOk ==
  UpdateReachesFields
  => IF FieldListOk(resp'.req.body.fields)
     THEN /\ resp'.status = 200
          /\ \E s \in subcategories' : /\ s._id = resp'.req.id
                                        /\ s.fields = CastFields(resp'.req.body.fields)
     ELSE /\ resp'.status # 200
          /\ subcategories' = subcategories

\* C8: updateSubcategory accepts and stores a field list iff createSubcategory would
\* accept it (see C6), so no list that create rejects is stored through update.
C8_UpdateStoresIffFieldsOk == [][UpdateStoresIffFieldsOk]_vars

(***************************************************************************)
(* SpecApi: requests to every router, with and without a credential        *)
(***************************************************************************)
ApiAuths == {NoCredential, Bearer("forged"), Bearer("tokU1")}

DocIds == {DocId(1)}

NoBody == [none |-> TRUE]

UrlA == <<"a">>

\* the category requests are sent before the first stamped write of another router, so
\* that the category timestamps do not multiply the states by the clock values
ApiCreateCategory ==
  now = 1 /\ \E a \in ApiAuths : createCategory([body |-> [name |-> NameA], id |-> "", auth |-> a])

ApiUpdateCategory ==
  now = 1 /\ \E a \in ApiAuths : updateCategory([body |-> [name |-> NameB], id |-> CatId(1), auth |-> a])

ApiDeleteCategory ==
  now = 1 /\ \E a \in ApiAuths : deleteCategory([body |-> NoBody, id |-> CatId(1), auth |-> a])

ApiCreateSubcategory ==
  \E a \in ApiAuths :
    createSubcategory([body |-> [name |-> NameA, categoryId |-> CatId(1), fields |-> <<>>], id |-> "",
                       auth |-> a])

ApiUpdateSubcategory ==
  \E a \in ApiAuths :
    updateSubcategory([body |-> [name |-> NameB, categoryId |-> CatId(1), fields |-> <<>>], id |-> SubId(1),
                       auth |-> a])

ApiDeleteSubcategory ==
  \E a \in ApiAuths : deleteSubcategory([body |-> NoBody, id |-> SubId(1), auth |-> a])

ApiPostForm ==
  \E a \in ApiAuths, body \in {[name |-> NameA, url |-> UrlA],
                                [id |-> DocId(1), name |-> NameB, url |-> UrlA]} :
    postForm([body |-> body, id |-> "", auth |-> a])

ApiDeleteForm ==
  \E a \in ApiAuths, id \in DocIds : deleteForm([body |-> NoBody, id |-> id, auth |-> a])

\* the requests sent to the customers router
CustomerRequests ==
  {[body |-> NoBody, auth |-> a, path |-> path, query |-> query, method |-> "GET"] :
     a \in {NoCredential}, path \in {<<>>, <<DocId(1)>>, <<"search">>},
     query \in {[none |-> TRUE], [q |-> <<>>], [q |-> <<"a">>]}}
  \cup {[body |-> [name |-> NameA], auth |-> a, path |-> <<>>, query |-> [none |-> TRUE],
         method |-> "POST"] : a \in ApiAuths}
  \cup {[body |-> [name |-> NameB], auth |-> a, path |-> <<id>>, query |-> [none |-> TRUE],
         method |-> "PUT"] : a \in ApiAuths, id \in DocIds}
  \cup {[body |-> NoBody, auth |-> a, path |-> <<id>>, query |-> [none |-> TRUE],
         method |-> "DELETE"] : a \in ApiAuths, id \in DocIds}

ApiCustomers == \E req \in CustomerRequests : customersRouter(req)

TemplateA == [name |-> NameA, subject |-> NameA, content |-> NameA]

ApiCreateTemplate ==
  \E a \in ApiAuths : createTemplate([body |-> TemplateA, id |-> "", auth |-> a])

ApiUpdateTemplate ==
  \E a \in ApiAuths, id \in DocIds :
    updateTemplate([body |-> [subject |-> NameB], id |-> id, auth |-> a])

ApiDeleteTemplate ==
  \E a \in ApiAuths, id \in DocIds : deleteTemplate([body |-> NoBody, id |-> id, auth |-> a])

ApiTestTemplate ==
  \E id \in DocIds : testTemplate([body |-> NoBody, id |-> id, auth |-> NoCredential])

NextApi ==
  \/ ApiCreateCategory
  \/ ApiUpdateCategory
  \/ ApiDeleteCategory
  \/ ApiCreateSubcategory
  \/ ApiUpdateSubcategory
  \/ ApiDeleteSubcategory
  \/ ApiPostForm
  \/ ApiDeleteForm
  \/ ApiCustomers
  \/ ApiCreateTemplate
  \/ ApiUpdateTemplate
  \/ ApiDeleteTemplate
  \/ ApiTestTemplate

SpecApi == Init /\ [][NextApi]_vars

(***************************************************************************)
(* Properties of the access guard and of the customers routes (SpecApi)    *)
(***************************************************************************)
MutationOps ==
  {"createCategory", "updateCategory", "deleteCategory",
   "createSubcategory", "updateSubcategory", "deleteSubcategory",
   "postForm", "deleteForm",
   "createCustomer", "updateCustomer", "deleteCustomer",
   "createTemplate", "updateTemplate", "deleteTemplate"}

Stores == <<categories, subcategories, forms, customers, templates>>

MutationGuarded ==
  (resp'.op \in MutationOps /\ ~protect(resp'.req.auth).next)
    => (resp'.status = 401 /\ UNCHANGED Stores)

\* C9: every mutation endpoint (POST/PUT/DELETE on categories, subcategories, forms,
\* customers and message templates) answers a request without a credential or with an
\* invalid one with 401 and leaves every store unchanged.
C9_MutationsGuarded == [][MutationGuarded]_vars

IsCustomerSearch(req) == Has(req, "path") /\ req.method = "GET" /\ req.path = <<"search">>

SearchHandledBySearch ==
  IsCustomerSearch(resp'.req) =>
    /\ resp'.op = "searchCustomers"
    /\ IF TruthyStr(resp'.req.query, "q")
       THEN /\ resp'.status = 200
            /\ Cardinality(resp'.data) <= SearchLimit
            /\ \A c \in resp'.data : SearchHit(c, resp'.req.query.q)
       ELSE resp'.status = 400 /\ resp'.msg = "QueryRequired"

\* C10: GET /customers/search is handled by the search operation (400 QueryRequired on
\* an empty or missing q, else 200 with at most 10 customers that each match q) and is
\* never handled as get(id) with id = "search".
C10_SearchHandledBySearch == [][SearchHandledBySearch]_vars

(***************************************************************************)
(* SpecCustomers: customer creation and update over serviceCategoryUrl     *)
(***************************************************************************)
\* values of serviceCategoryUrl: null, '', ' ', 'e', ' e', 'http'
UrlInputs == {Null, <<>>, <<" ">>, <<"e">>, <<" ", "e">>, Http}

CustomerBodies == {[name |-> NameA]} \cup {[name |-> NameA, serviceCategoryUrl |-> u] : u \in UrlInputs}

CustomersPost ==
  \E body \in CustomerBodies :
    customersRouter([body |-> body, auth |-> NoCredential, path |-> <<>>,
                     query |-> [none |-> TRUE], method |-> "POST"])

CustomersPut ==
  \E body \in CustomerBodies, id \in {DocId(n) : n \in 1..MaxDocs} :
    customersRouter([body |-> body, auth |-> NoCredential, path |-> <<id>>,
                     query |-> [none |-> TRUE], method |-> "PUT"])

NextCustomers ==
  \/ CustomersPost
  \/ CustomersPut

SpecCustomers == Init /\ [][NextCustomers]_vars

(***************************************************************************)
(* Properties of serviceCategoryUrl normalization (SpecCustomers)          *)
(***************************************************************************)
\* the customer a create step has just stored
CreatedCustomer == CHOOSE c \in customers' : c \notin customers

\* the stored serviceCategoryUrl the rule prescribes for a given one: none for an empty
\* value, the value itself when it starts with http, else the value after https://
UrlStoredAsPrescribed(doc, given) ==
  LET url == Trim(given) IN
  IF url = <<>> THEN ~Has(doc, "serviceCategoryUrl")
  ELSE /\ Has(doc, "serviceCategoryUrl")
       /\ doc.serviceCategoryUrl = IF StartsWithHttp(url) THEN url ELSE HttpsPrefixed(url)

CreateNormalizesUrl ==
  (/\ resp'.op = "createCustomer" /\ resp'.status = 201
   /\ Has(resp'.req.body, "serviceCategoryUrl")
   /\ resp'.req.body.serviceCategoryUrl # Null)
    => UrlStoredAsPrescribed(CreatedCustomer, resp'.req.body.serviceCategoryUrl)

\* C11: customer create stores a serviceCategoryUrl without http prefix prefixed with
\* https://, one with the prefix as given, and for the empty string stores no
\* serviceCategoryUrl at all (never '').
C11_CreateNormalizesUrl == [][CreateNormalizesUrl]_vars

\* the customer an update step has just written
UpdatedCustomer == CHOOSE c \in customers' : c._id = resp'.req.path[1]

EmptyUrl(body) ==
  /\ Has(body, "serviceCategoryUrl")
  /\ (body.serviceCategoryUrl = Null \/ Trim(body.serviceCategoryUrl) = <<>>)

UpdateNormalizesAsCreate ==
  (resp'.op = "updateCustomer" /\ resp'.status = 200)
    => /\ NormalizeOnUpdate(resp'.req.body) = NormalizeOnCreate(resp'.req.body)
       /\ EmptyUrl(resp'.req.body) => ~Has(UpdatedCustomer, "serviceCategoryUrl")

\* C12: customer update hands the store the same serviceCategoryUrl as create does for
\* every input (absent, null, '', blank, without and with http prefix), and an empty
\* value leaves the stored customer without the field.
C12_UpdateNormalizesAsCreate == [][UpdateNormalizesAsCreate]_vars

(***************************************************************************)
(* SpecTemplates: the message-templates router                             *)
(***************************************************************************)
TemplateUpdates ==
  {[none |-> TRUE], [subject |-> NameB], [subject |-> <<>>], [name |-> NamePaddedA],
   [name |-> <<>>, content |-> NameB], [type |-> "NOTIFICATION"], [type |-> ""],
   [type |-> "LETTER"], [content |-> <<" ">>]}

TemplateIds == {DocId(n) : n \in 1..MaxDocs}

TemplatesCreate ==
  \E body \in {TemplateA, [name |-> NameB, type |-> "PROMOTIONAL", subject |-> NameA,
                            content |-> NameA], [name |-> NameA, subject |-> NameA]} :
    createTemplate([body |-> body, id |-> "", auth |-> NoCredential])

TemplatesUpdate ==
  \E id \in TemplateIds, body \in TemplateUpdates :
    updateTemplate([body |-> body, id |-> id, auth |-> NoCredential])

TemplatesDelete ==
  \E id \in TemplateIds : deleteTemplate([body |-> NoBody, id |-> id, auth |-> NoCredential])

TemplatesTest ==
  \E id \in TemplateIds : testTemplate([body |-> NoBody, id |-> id, auth |-> NoCredential])

NextTemplates ==
  \/ TemplatesCreate
  \/ TemplatesUpdate
  \/ TemplatesDelete
  \/ TemplatesTest

SpecTemplates == Init /\ [][NextTemplates]_vars

(***************************************************************************)
(* Properties of message template update (SpecTemplates)                   *)
(***************************************************************************)
TemplateUpdated == resp'.op = "updateTemplate" /\ resp'.status = 200

TemplateBefore == CHOOSE t \in templates : t._id = resp'.req.id

TemplateAfter == CHOOSE t \in templates' : t._id = resp'.req.id

TemplateRequestFields == {"name", "subject", "content", "type"}

PartialUpdateApplied ==
  TemplateUpdated =>
    /\ \A key \in TemplateRequestFields :
         TemplateAfter[key] =
           IF ~Has(resp'.req.body, key) THEN TemplateBefore[key]
           ELSE IF key = "type" THEN resp'.req.body[key]
           ELSE Trim(resp'.req.body[key])
    /\ TemplateAfter.createdAt = TemplateBefore.createdAt
    /\ templates' \ {TemplateAfter} = templates \ {TemplateBefore}

\* C13: a message template update keeps each of name, subject, content, type that is
\* absent from the request and applies each one that is present, the empty string
\* included; it changes nothing else.
C13_PartialUpdateApplied == [][PartialUpdateApplied]_vars

UpdatedAtRefreshed ==
  TemplateUpdated =>
    /\ TemplateAfter.updatedAt = now'
    /\ TemplateAfter.updatedAt > TemplateBefore.updatedAt

\* C14: a successful message template update sets updatedAt to the time of the update,
\* later than the updatedAt stored before it.
C14_UpdatedAtRefreshed == [][UpdatedAtRefreshed]_vars

(***************************************************************************)
(* SpecForms: the forms router with a valid credential                     *)
(***************************************************************************)
UrlB == <<"b">>

FormIds == {DocId(n) : n \in 1..MaxDocs}

\* bodies that carry a name and a url
FullFormBodies ==
  {[name |-> n, url |-> u] : n \in {NameA, NameB, NamePaddedA}, u \in {UrlA, UrlB}}

\* bodies whose name or url is missing or empty
DeficientFormBodies ==
  {[url |-> UrlA], [name |-> NameA], [name |-> <<>>, url |-> UrlB], [name |-> NameB, url |-> <<>>]}

\* the same bodies carrying the id of the form to update
FormBodies ==
  FullFormBodies \cup DeficientFormBodies
    \cup {[id |-> id, name |-> n, url |-> u] :
            id \in FormIds, n \in {NameA, NameB, NamePaddedA}, u \in {UrlA, UrlB}}
    \cup {[id |-> DocId(1), url |-> UrlA], [id |-> DocId(1), name |-> NameA],
           [id |-> DocId(1), name |-> <<>>, url |-> UrlB],
           [id |-> DocId(1), name |-> NameB, url |-> <<>>]}

FormsPost ==
  \E body \in FormBodies : postForm([body |-> body, id |-> "", auth |-> Bearer("tokU1")])

FormsDelete ==
  \E id \in FormIds : deleteForm([body |-> NoBody, id |-> id, auth |-> Bearer("tokU1")])

NextForms ==
  \/ FormsPost
  \/ FormsDelete

SpecForms == Init /\ [][NextForms]_vars

(***************************************************************************)
(* Properties of the forms router (SpecForms)                              *)
(***************************************************************************)
FormKeysUnique ==
  \A f1, f2 \in forms :
    (f1.name = f2.name \/ f1.url = f2.url \/ f1._id = f2._id) => f1 = f2

\* the stored forms other than except that use the name or the url of the body
FormsUsing(body, except) ==
  {f \in forms : /\ f._id # except
                  /\ \/ Has(body, "name") /\ f.name = Trim(body.name)
                     \/ Has(body, "url") /\ f.url = Trim(body.url)}

DuplicateAnswered == resp'.status = 400 /\ resp'.msg = "DuplicateName" /\ forms' = forms

FormWriteStep ==
  Handled("postForm") =>
    LET body == resp'.req.body IN
    IF ~TruthyWord(body, "id")
    THEN FormsUsing(body, "") # {} => DuplicateAnswered
    ELSE \A form \in FormById(body.id) :
           /\ FormsUsing(body, body.id) # {} => DuplicateAnswered
           /\ (/\ Has(body, "name") /\ Trim(body.name) = form.name
               /\ Has(body, "url") /\ Trim(body.url) = form.url)
                => resp'.status = 200

\* C15: after any sequence of form create, update and delete requests no two stored
\* forms share a name and no two share a url; create is answered 400 DuplicateName when
\* a stored form uses the name or the url, update when a form other than the updated
\* one does, and an update of a form to its own name and url succeeds.
C15_FormKeysUnique == []FormKeysUnique /\ [][FormWriteStep]_vars

\* two forms are stored and an update of one to the url of the other was rejected
C15_Witness ==
  /\ resp.op = "postForm"
  /\ resp.status = 400
  /\ resp.msg = "DuplicateName"
  /\ TruthyWord(resp.req.body, "id")
  /\ Has(resp.req.body, "name") /\ Has(resp.req.body, "url")
  /\ FormById(resp.req.body.id) # {}
  /\ \E f \in forms : /\ f._id # resp.req.body.id
                       /\ f.url = Trim(resp.req.body.url)
                       /\ f.name # Trim(resp.req.body.name)

(***************************************************************************)
(* Properties of the 500 responses (SpecTemplates)                         *)
(***************************************************************************)
InternalErrorOpaque == resp'.status = 500 => ~Has(resp', "error")

\* C16: an operation that fails with an unexpected store or runtime exception answers
\* 500 with a body that is the same for every exception and carries nothing of the
\* exception's message.
C16_InternalErrorOpaque == [][InternalErrorOpaque]_vars

(***************************************************************************)
(* Properties of form input validation (SpecForms)                         *)
(***************************************************************************)
\* check('name').not().isEmpty() or check('url').not().isEmpty() reports an error
FormInputRejected(body) == ~NotEmptyStr(body, "name") \/ ~NotEmptyStr(body, "url")

DeficientFormAnswered400 ==
  (/\ Handled("postForm") /\ protect(resp'.req.auth).next
   /\ FormInputRejected(resp'.req.body))
    => /\ resp'.status = 400
       /\ resp'.msg = "ValidationFailed"
       /\ forms' = forms

\* C17: an authenticated POST /forms whose name or url is missing or empty is answered
\* 400 ValidationFailed and stores no form; it is never answered 500.
C17_DeficientFormAnswered400 == [][DeficientFormAnswered400]_vars

(***************************************************************************)
(* SpecCategories: category creation and update by two users               *)
(***************************************************************************)
CategoryAuths == {Bearer("tokU1"), Bearer("tokU2")}

DescriptionD == <<"d">>

CategoryCreateBodies ==
  {[name |-> n] : n \in {NameA, NameB}}
    \cup {[name |-> n, description |-> DescriptionD] : n \in {NameA, NameB}}

CategoryUpdateBodies ==
  {[name |-> n] : n \in SeqNames}
    \cup {[name |-> NameA, description |-> <<>>], [name |-> NameB, isActive |-> FALSE]}

CategoriesCreate ==
  \E a \in CategoryAuths, body \in CategoryCreateBodies :
    createCategory([body |-> body, id |-> "", auth |-> a])

CategoriesUpdate ==
  \E a \in CategoryAuths, id \in CatIds, body \in CategoryUpdateBodies :
    updateCategory([body |-> body, id |-> id, auth |-> a])

NextCategories ==
  \/ CategoriesCreate
  \/ CategoriesUpdate

SpecCategories == Init /\ [][NextCategories]_vars

(***************************************************************************)
(* Properties of category update (SpecCategories)                          *)
(***************************************************************************)
CategoryBefore == CHOOSE c \in categories : c._id = resp'.req.id

CategoryAfter == CHOOSE c \in categories' : c._id = resp'.req.id

\* what a successful update leaves alone, and the user it records
CategoryFrameKept ==
  /\ CategoryAfter.updatedBy = protect(resp'.req.auth).user
  /\ CategoryAfter.createdBy = CategoryBefore.createdBy
  /\ CategoryAfter.createdAt = CategoryBefore.createdAt
  /\ ~Has(resp'.req.body, "description") => CategoryAfter.description = CategoryBefore.description
  /\ ~Has(resp'.req.body, "isActive") => CategoryAfter.isActive = CategoryBefore.isActive
  /\ categories' \ {CategoryAfter} = categories \ {CategoryBefore}

UpdateCategoryStep ==
  (/\ Handled("updateCategory") /\ protect(resp'.req.auth).next
   /\ NotEmptyStr(resp'.req.body, "name") /\ Trim(resp'.req.body.name) # <<>>
   /\ CategoryById(resp'.req.id) # {})
    => LET name == resp'.req.body.name IN
       /\ name = CategoryBefore.name => resp'.status = 200
       /\ (name # CategoryBefore.name
             /\ \E c \in CategoriesNamed(Trim(name)) : c._id # resp'.req.id)
            => (resp'.status = 400 /\ resp'.msg = "DuplicateName" /\ categories' = categories)
       /\ resp'.status = 200 => CategoryFrameKept

\* C18: updateCategory on a stored category succeeds when the requested name is the
\* stored one, is answered 400 DuplicateName with every category unchanged when another
\* category holds the requested name, and on success sets updatedBy to the acting user
\* and keeps createdBy, createdAt and the description and isActive the request omits.
C18_UpdateCategory == [][UpdateCategoryStep]_vars

\* a category created by one user with a description was updated by another user to its
\* own name, the request naming no description, and a second category is stored
C18_Witness ==
  /\ resp.op = "updateCategory"
  /\ resp.status = 200
  /\ ~Has(resp.req.body, "description")
  /\ Cardinality(categories) = 2
  /\ \E c \in CategoryById(resp.req.id) :
       /\ c.name = resp.req.body.name
       /\ c.updatedBy = "u2"
       /\ c.createdBy = "u1"
       /\ c.description # <<>>

(***************************************************************************)
(* SpecSubUpdate: subcategory update across two categories                 *)
(***************************************************************************)
SubUpdateCreateCategory ==
  \E n \in {NameA, NameB} :
    createCategory([body |-> [name |-> n], id |-> "", auth |-> Bearer("tokU1")])

SubUpdateCreateSubcategory ==
  \E c \in CatIds :
    createSubcategory([body |-> [name |-> NameA, categoryId |-> c, fields |-> <<>>], id |-> "",
                       auth |-> Bearer("tokU1")])

SubUpdateFieldLists == {<<>>, <<FText, FRadioEmpty>>}

SubUpdateUpdateSubcategory ==
  \E id \in SubIds, n \in {NameA, NamePaddedA}, c \in CatIds, fl \in SubUpdateFieldLists :
    updateSubcategory([body |-> [name |-> n, categoryId |-> c, fields |-> fl], id |-> id,
                       auth |-> Bearer("tokU1")])

NextSubUpdate ==
  \/ SubUpdateCreateCategory
  \/ SubUpdateCreateSubcategory
  \/ SubUpdateUpdateSubcategory

SpecSubUpdate == Init /\ [][NextSubUpdate]_vars

(***************************************************************************)
(* Properties of subcategory update (SpecSubUpdate)                        *)
(***************************************************************************)
\* the subcategories other than the updated one that hold the requested key
OthersHoldingKey(req) ==
  {s \in subcategories : /\ s._id # req.id
                          /\ s.name = Trim(req.body.name)
                          /\ s.categoryId = req.body.categoryId}

\* a field the handler's loop rejects: no name, no type, or a choice without options
FieldLoopRejects(field) ==
  \/ ~TruthyStr(field, "name")
  \/ ~TruthyWord(field, "fieldType")
  \/ field.fieldType \in {"select", "radio", "checkbox"} /\ ~TruthyStr(field, "options")

Rejected(status, msg) == resp'.status = status /\ resp'.msg = msg /\ subcategories' = subcategories

UpdateSubcategoryStep ==
  (/\ Handled("updateSubcategory") /\ protect(resp'.req.auth).next
   /\ NotEmptyStr(resp'.req.body, "name") /\ NotEmptyWord(resp'.req.body, "categoryId")
   /\ Has(resp'.req.body, "fields"))
    => LET req == resp'.req IN
       IF SubcategoryById(req.id) = {} THEN Rejected(404, "NotFound")
       ELSE IF CategoryById(req.body.categoryId) = {} THEN Rejected(404, "CategoryNotFound")
       ELSE IF OthersHoldingKey(req) # {} THEN Rejected(400, "DuplicateName")
       ELSE /\ resp'.msg # "DuplicateName"
            /\ (\E i \in DOMAIN req.body.fields : FieldLoopRejects(req.body.fields[i]))
                 => (resp'.status = 400 /\ subcategories' = subcategories)

GuardTokens == {"tokU1", "tokU2", "tokGone", "tokOld", "forged"}

\* Authorization header values: absent, the bare scheme, the scheme and a space, the
\* scheme and a token, two spaces before the token, the token glued to the scheme, a
\* longer word that starts with the scheme, another scheme, the scheme in lower case
GuardHeaders ==
  {<<>>, BearerScheme, BearerScheme \o <<" ">>}
    \cup {BearerScheme \o <<" ", t>> : t \in GuardTokens}
    \cup {BearerScheme \o <<" ", " ", "tokU1">>,
          BearerScheme \o <<"tokU1">>,
          BearerScheme \o <<"x", " ", "tokU1">>,
          <<"B", "a", "s", "i", "c", " ", "tokU1">>,
          <<"b", "e", "a", "r", "e", "r", " ", "tokU1">>}

GuardCookies == {<<>>, <<"tokU1">>, <<"forged">>}

GuardAuths == {[authorization |-> h, cookie |-> c] : h \in GuardHeaders, c \in GuardCookies}

GuardCreateCategory ==
  \E a \in GuardAuths :
    createCategory([body |-> [name |-> NameA], id |-> "", auth |-> a])

GuardUpdateCategory ==
  \E a \in GuardAuths, n \in {NameA, NameB} :
    updateCategory([body |-> [name |-> n], id |-> CatId(1), auth |-> a])

NextGuard == GuardCreateCategory \/ GuardUpdateCategory

SpecGuard == Init /\ [][NextGuard]_vars

\* the token a request presents: the piece after the first space of a header that
\* starts with Bearer, and the cookie only when the header does not start with Bearer
PresentedToken(a) ==
  IF StartsWith(a.authorization, BearerScheme)
  THEN (LET parts == SplitOnSpace(a.authorization)
        IN IF Len(parts) >= 2 THEN parts[2] ELSE <<>>)
  ELSE a.cookie

\* the token verifies, its user exists and has not changed password since its issue
Authorized(a) ==
  LET t == PresentedToken(a) IN
  /\ Len(t) = 1
  /\ t[1] \in DOMAIN JwtPayload
  /\ \E u \in Users : /\ u.id = JwtPayload[t[1]].id
                      /\ ~(u.passwordChangedAt > JwtPayload[t[1]].iat)

AuthorizedUser(a) == JwtPayload[PresentedToken(a)[1]].id

GuardedOps == {"createCategory", "updateCategory"}

\* the user the handler recorded on the document it wrote
RecordedUser ==
  IF resp'.op = "createCategory"
  THEN (CHOOSE c \in categories' : c \notin categories).createdBy
  ELSE CategoryAfter.updatedBy

GuardStep ==
  (resp'.op \in GuardedOps /\ vars' # vars)
    => LET a == resp'.req.auth IN
       /\ protect(a).next <=> Authorized(a)
       /\ protect(a).next <=> protect(a).status = 0
       /\ ~protect(a).next <=> protect(a).status = 401
       /\ Authorized(a)
            => /\ resp'.status # 401
               /\ protect(a).user = AuthorizedUser(a)
               /\ resp'.status \in {200, 201} => RecordedUser = AuthorizedUser(a)
       /\ ~Authorized(a) => (resp'.status = 401 /\ UNCHANGED Stores)

\* C20: protect either passes the request on once with req.user set, exactly when the
\* token it took (from a header that starts with Bearer, otherwise from the cookie)
\* verifies, names an existing user and is not older than that user's password change,
\* or answers 401 and the handler never runs; a header that starts with Bearer never
\* falls back to the cookie.
C20_ProtectGrantsIffAuthorized == [][GuardStep]_vars

\* a request whose header is the bare scheme was answered 401 although its cookie held
\* a token that verifies for an existing user
C20_Witness ==
  /\ resp.op \in GuardedOps
  /\ StartsWith(resp.req.auth.authorization, BearerScheme)
  /\ PresentedToken(resp.req.auth) = <<>>
  /\ resp.req.auth.cookie = <<"tokU1">>
  /\ resp.status = 401

(***************************************************************************)
(* SpecIntegrity: deleteCategory, createSubcategory and updateSubcategory   *)
(* handlers running concurrently, each one step per await.                  *)
(***************************************************************************)
IntegrityFrame == UNCHANGED <<forms, customers, templates, nextDoc, now, nextCat>>

FinishAs(p, op, status, msg) ==
  /\ procs' = [procs EXCEPT ![p].pc = "done", ![p].status = status]
  /\ Reply(op, procs[p].req, status, msg)

\* a handler enters: protect, then the first await on the given position
Enter(p, op, req, pc) ==
  LET guard == protect(req.auth) IN
  IF ~guard.next
  THEN /\ procs' = [procs EXCEPT ![p] = [IdleProc EXCEPT !.pc = "done", !.req = req,
                                                          !.status = guard.status]]
       /\ Reply(op, req, guard.status, "Unauthorized")
  ELSE /\ procs' = [procs EXCEPT ![p] = [IdleProc EXCEPT !.pc = pc, !.req = req,
                                                          !.user = guard.user]]
       /\ UNCHANGED resp

\* DELETE /api/form-categories/:id up to await FormCategory.findById
categoryDeleteStart(p, req) ==
  /\ procs[p].pc = "idle"
  /\ IntegrityFrame
  /\ UNCHANGED <<categories, subcategories, nextSub>>
  /\ Enter(p, "deleteCategory", req, "deleteFindCategory")

\* the delete handler resumes after one of its awaits: findById, the query for
\* dependent subcategories, findByIdAndRemove
categoryDeleteResume(p) ==
  LET id == procs[p].req.id
      op == "deleteCategory" IN
  /\ procs[p].pc \in {"deleteFindCategory", "deleteFindDependents", "deleteRemove"}
  /\ IntegrityFrame
  /\ UNCHANGED <<subcategories, nextSub>>
  /\ IF procs[p].pc = "deleteFindCategory"
     THEN /\ UNCHANGED categories
          /\ IF CategoryById(id) = {} THEN FinishAs(p, op, 404, "NotFound")
             ELSE IF "FormSubCategory" \notin CategoriesRouterScope
             THEN FinishAs(p, op, 500, "ServerError")
             ELSE procs' = [procs EXCEPT ![p].pc = "deleteFindDependents"] /\ UNCHANGED resp
     ELSE IF procs[p].pc = "deleteFindDependents"
     THEN /\ UNCHANGED categories
          /\ IF \E s \in subcategories : s.categoryId = id
             THEN FinishAs(p, op, 400, "HasDependents")
             ELSE procs' = [procs EXCEPT ![p].pc = "deleteRemove"] /\ UNCHANGED resp
     ELSE /\ categories' = categories \ CategoryById(id)
          /\ FinishAs(p, op, 200, "Removed")

\* PUT /api/form-subcategories/:id up to await FormSubCategory.findById
subcategoryUpdateStart(p, req) ==
  /\ procs[p].pc = "idle"
  /\ IntegrityFrame
  /\ UNCHANGED <<categories, subcategories, nextSub>>
  /\ IF protect(req.auth).next /\ ~SubcategoryBodyOk(req.body)
     THEN /\ procs' = [procs EXCEPT ![p] = [IdleProc EXCEPT !.pc = "done", !.req = req,
                                                             !.status = 400]]
          /\ Reply("updateSubcategory", req, 400, "ValidationFailed")
     ELSE Enter(p, "updateSubcategory", req, "updateFindSubcategory")

\* await FormSubCategory.findById(req.params.id) resolves
subcategoryUpdateFindSubcategory(p) ==
  /\ procs[p].pc = "updateFindSubcategory"
  /\ IntegrityFrame
  /\ UNCHANGED <<categories, subcategories, nextSub>>
  /\ IF SubcategoryById(procs[p].req.id) = {}
     THEN FinishAs(p, "updateSubcategory", 404, "NotFound")
     ELSE /\ procs' = [procs EXCEPT
                         ![p].pc = "updateFindCategory",
                         ![p].doc = CHOOSE s \in SubcategoryById(procs[p].req.id) : TRUE]
          /\ UNCHANGED resp

\* await FormCategory.findById(categoryId) resolves; without a changed name or category
\* the handler goes on to the loop over fields
subcategoryUpdateFindCategory(p) ==
  LET body == procs[p].req.body
      subcategory == procs[p].doc
      op == "updateSubcategory" IN
  /\ procs[p].pc = "updateFindCategory"
  /\ IntegrityFrame
  /\ UNCHANGED <<categories, subcategories, nextSub>>
  /\ IF ~CategoryExists(body.categoryId) THEN FinishAs(p, op, 404, "CategoryNotFound")
     ELSE IF body.name # subcategory.name \/ body.categoryId # subcategory.categoryId
     THEN procs' = [procs EXCEPT ![p].pc = "updateFindDuplicate"] /\ UNCHANGED resp
     ELSE IF ValidateFields(body.fields) # ""
     THEN FinishAs(p, op, 400, ValidateFields(body.fields))
     ELSE procs' = [procs EXCEPT ![p].pc = "updateWrite"] /\ UNCHANGED resp

\* await FormSubCategory.findOne({ name, categoryId, _id: { $ne } }) resolves
subcategoryUpdateFindDuplicate(p) ==
  LET body == procs[p].req.body
      op == "updateSubcategory" IN
  /\ procs[p].pc = "updateFindDuplicate"
  /\ IntegrityFrame
  /\ UNCHANGED <<categories, subcategories, nextSub>>
  /\ IF SubcategoryByKey(body.name, body.categoryId, procs[p].req.id) # {}
     THEN FinishAs(p, op, 400, "DuplicateName")
     ELSE IF ValidateFields(body.fields) # ""
     THEN FinishAs(p, op, 400, ValidateFields(body.fields))
     ELSE procs' = [procs EXCEPT ![p].pc = "updateWrite"] /\ UNCHANGED resp

\* await FormSubCategory.findByIdAndUpdate(id, { $set }, { new: true }) resolves: the
\* stored document of that id, if any, is changed; null is answered 200 as well
subcategoryUpdateWrite(p) ==
  LET body == procs[p].req.body
      found == SubcategoryById(procs[p].req.id)
      op == "updateSubcategory" IN
  /\ procs[p].pc = "updateWrite"
  /\ IntegrityFrame
  /\ UNCHANGED <<categories, nextSub>>
  /\ IF found = {} THEN FinishAs(p, op, 200, "Null") /\ UNCHANGED subcategories
     ELSE LET subcategory == CHOOSE s \in found : TRUE
              updated == [subcategory EXCEPT
                            !.name = Trim(body.name),
                            !.categoryId = body.categoryId,
                            !.fields = CastFields(body.fields),
                            !.updatedBy = procs[p].user,
                            !.description = IF Has(body, "description")
                                            THEN Trim(body.description) ELSE @,
                            !.isActive = IF Has(body, "isActive")
                                         THEN body.isActive ELSE @] IN
          IF SubcategoryIndexRejects(updated)
          THEN FinishAs(p, op, 500, "ServerError") /\ UNCHANGED subcategories
          ELSE /\ subcategories' = (subcategories \ {subcategory}) \cup {updated}
               /\ FinishAs(p, op, 200, "Subcategory")

\* the create handler's steps in this specification
subcategoryCreateStep(p) ==
  \/ subcategoryFindCategory(p)
  \/ subcategoryFindDuplicate(p)
  \/ subcategorySave(p)

IntegrityCreateCategory ==
  \E n \in {NameA, NameB} :
    /\ createCategory([body |-> [name |-> n], id |-> "", auth |-> Bearer("tokU1")])
    /\ procs' = procs

\* a subcategory stored before the concurrent requests arrive
IntegritySeed ==
  /\ subcategories = {}
  /\ createSubcategory([body |-> [name |-> NameA, categoryId |-> CatId(1), fields |-> <<>>],
                        id |-> "", auth |-> Bearer("tokU1")])
  /\ procs' = procs

IntegrityStartCreate ==
  \E p \in Procs :
    subcategoryStart(p, [body |-> [name |-> NameB, categoryId |-> CatId(1), fields |-> <<>>],
                         id |-> "", auth |-> Bearer("tokU1")])

IntegrityStartDelete ==
  \E p \in Procs :
    categoryDeleteStart(p, [body |-> NoBody, id |-> CatId(1), auth |-> Bearer("tokU1")])

IntegrityStartUpdate ==
  \E p \in Procs, c \in CatIds :
    subcategoryUpdateStart(p, [body |-> [name |-> NameA, categoryId |-> c, fields |-> <<>>],
                               id |-> SubId(1), auth |-> Bearer("tokU1")])

IntegrityCreateSteps == \E p \in Procs : subcategoryCreateStep(p)

IntegrityDeleteSteps == \E p \in Procs : categoryDeleteResume(p)

IntegrityUpdateSteps ==
  \E p \in Procs :
    \/ subcategoryUpdateFindSubcategory(p)
    \/ subcategoryUpdateFindCategory(p)
    \/ subcategoryUpdateFindDuplicate(p)
    \/ subcategoryUpdateWrite(p)

NextIntegrity ==
  \/ IntegrityCreateCategory
  \/ IntegritySeed
  \/ IntegrityStartCreate
  \/ IntegrityStartDelete
  \/ IntegrityStartUpdate
  \/ IntegrityCreateSteps
  \/ IntegrityDeleteSteps
  \/ IntegrityUpdateSteps

SpecIntegrity == Init /\ [][NextIntegrity]_vars

ErrorsAuth == Bearer("tokU1")

\* the taxonomy requests are sent before the first stamped write of another router
ErrorsCreateCategory ==
  \E n \in {NameA, NameB, <<>>} :
    now = 1 /\ createCategory([body |-> [name |-> n], id |-> "", auth |-> ErrorsAuth])

ErrorsUpdateCategory ==
  now = 1 /\ updateCategory([body |-> [name |-> NameB], id |-> CatId(1), auth |-> ErrorsAuth])

ErrorsDeleteCategory ==
  now = 1 /\ deleteCategory([body |-> NoBody, id |-> CatId(1), auth |-> ErrorsAuth])

ErrorsCreateSubcategory ==
  \E fl \in {<<>>, <<FNoName>>} :
    now = 1 /\
    createSubcategory([body |-> [name |-> NameA, categoryId |-> CatId(1), fields |-> fl],
                       id |-> "", auth |-> ErrorsAuth])

ErrorsUpdateSubcategory ==
  \E c \in CatIds, fl \in {<<>>, <<FNoName>>} :
    now = 1 /\
    updateSubcategory([body |-> [name |-> NameA, categoryId |-> c, fields |-> fl],
                       id |-> SubId(1), auth |-> ErrorsAuth])

ErrorsDeleteSubcategory ==
  now = 1 /\ deleteSubcategory([body |-> NoBody, id |-> SubId(1), auth |-> ErrorsAuth])

ErrorsPostForm ==
  \E body \in {[name |-> NameA, url |-> UrlA], [name |-> NameA, url |-> UrlB],
               [id |-> DocId(1), name |-> NameB, url |-> UrlA]} :
    postForm([body |-> body, id |-> "", auth |-> ErrorsAuth])

ErrorsDeleteForm ==
  \E id \in DocIds : deleteForm([body |-> NoBody, id |-> id, auth |-> ErrorsAuth])

ErrorsCustomers ==
  \E method \in {"POST", "PUT", "DELETE"},
     body \in {[name |-> NameA, phone |-> <<"1">>], [name |-> NameA, phone |-> <<"2">>],
               [name |-> <<" ">>]} :
    customersRouter([body |-> body, auth |-> NoCredential,
                     path |-> IF method = "POST" THEN <<>> ELSE <<DocId(1)>>,
                     query |-> [none |-> TRUE], method |-> method])

ErrorsCreateTemplate ==
  \E body \in {TemplateA, [name |-> NameA, subject |-> NameA]} :
    createTemplate([body |-> body, id |-> "", auth |-> NoCredential])

ErrorsUpdateTemplate ==
  \E id \in DocIds : updateTemplate([body |-> [subject |-> NameB], id |-> id,
                                     auth |-> NoCredential])

ErrorsDeleteTemplate ==
  \E id \in DocIds : deleteTemplate([body |-> NoBody, id |-> id, auth |-> NoCredential])

ErrorsTestTemplate ==
  \E id \in DocIds : testTemplate([body |-> NoBody, id |-> id, auth |-> NoCredential])

NextErrors ==
  \/ ErrorsCreateCategory
  \/ ErrorsUpdateCategory
  \/ ErrorsDeleteCategory
  \/ ErrorsCreateSubcategory
  \/ ErrorsUpdateSubcategory
  \/ ErrorsDeleteSubcategory
  \/ ErrorsPostForm
  \/ ErrorsDeleteForm
  \/ ErrorsCustomers
  \/ ErrorsCreateTemplate
  \/ ErrorsUpdateTemplate
  \/ ErrorsDeleteTemplate
  \/ ErrorsTestTemplate

SpecErrors == Init /\ [][NextErrors]_vars

ClientErrors == 400..499

RejectionWritesNothing ==
  (resp'.status \in ClientErrors /\ vars' # vars) => UNCHANGED Stores

\* C22: a request answered with a 4xx status leaves every stored collection as it was.
C22_RejectionWritesNothing == [][RejectionWritesNothing]_vars

\* a customer creation was answered 400 for a duplicate key while a customer is stored
C22_Witness ==
  /\ resp.op = "createCustomer"
  /\ resp.status = 400
  /\ resp.msg = "DuplicateKey"
  /\ customers # {}

====
